---- MODULE Spec2Model ----
(***************************************************************************)
(* Updraft: year-in-review recaps for Bluesky.                             *)
(*                                                                         *)
(* Part I   the paginated fetcher getAllAuthorPosts and the pipeline       *)
(*          generateRecap built on it (backend/src/services/bluesky.ts).   *)
(* Part II  the two routes POST /recap and POST /recap/regenerate with     *)
(*          the Prisma cache (backend/src/routes/bluesky.ts).              *)
(*                                                                         *)
(* Time stamps of posts are integers in abstract ticks; the wall clock of  *)
(* the routes is counted in days.                                          *)
(***************************************************************************)
EXTENDS Integers, Sequences, FiniteSets, TLC

(***************************************************************************)
(* Bounds of the model.                                                    *)
(***************************************************************************)
\* ticks in one calendar year of post time stamps
TicksPerYear == 2
\* most items on one page of the richly varied feeds
MaxPageLen == 2
\* most pages of a richly varied feed
MaxRich == 2
\* most pages of a feed built from the coarse pages
MaxCoarse == 8

(***************************************************************************)
(* Program constants.                                                      *)
(***************************************************************************)
\* getAllAuthorPosts: const maxIterations = 100
maxIterations == 100
\* getAllAuthorPosts: const maxConsecutivePagesWithoutTargetYear = 5
maxConsecutivePagesWithoutTargetYear == 5
\* generateRecap: const maxIterations = 100 ("should match the value in
\* getAllAuthorPosts"), handed to analyzeRecap
recapMaxIterations == 100

\* the year asked for, new Date().getFullYear(), in years since the epoch
targetYear == 1
\* new Date(targetYear, 0, 1).getTime()
yearStart == targetYear * TicksPerYear
\* new Date(targetYear + 1, 0, 1).getTime()
yearEnd == (targetYear + 1) * TicksPerYear

NoCursor == 0
NoRecap == [none |-> TRUE]
NoResult == [none |-> TRUE]
Undefined == [undefined |-> TRUE]
NoRow == [none |-> TRUE]

(***************************************************************************)
(* The upstream author feed.  An item is the time stamp of its post; a     *)
(* page is one response of app.bsky.feed.getAuthorFeed.                    *)
(***************************************************************************)
Times == (yearStart - 1)..yearEnd

SeqsUpTo(S, n) == UNION {[1..k -> S] : k \in 0..n}

ErrorPage == [ok |-> FALSE, feed |-> <<>>, cursor |-> FALSE]
EmptyPage == [ok |-> TRUE, feed |-> <<>>, cursor |-> FALSE]

RichPages ==
  {[ok |-> TRUE, feed |-> f, cursor |-> c] : f \in SeqsUpTo(Times, MaxPageLen), c \in BOOLEAN}
    \cup {ErrorPage}

\* one-item pages that carry a cursor: a post before the year, one at its
\* first instant, one at the first instant after it
CoarsePages ==
  {[ok |-> TRUE, feed |-> <<t>>, cursor |-> TRUE] : t \in {yearStart - 1, yearStart, yearEnd}}

\* the ways an endless feed may end after all
EndPages ==
  {ErrorPage, EmptyPage, [ok |-> TRUE, feed |-> <<yearStart>>, cursor |-> FALSE]}

Modes == {"rich", "coarse", "endless"}

\* the pages the upstream may serve at a position it has not served yet
Offer(m, sv) ==
  CASE m = "rich" -> IF Len(sv) < MaxRich THEN RichPages ELSE {EmptyPage}
    [] m = "coarse" -> IF Len(sv) < MaxCoarse THEN CoarsePages ELSE {EmptyPage}
    [] OTHER -> IF sv = <<>> THEN CoarsePages ELSE {sv[1]} \cup EndPages

VARIABLES
  mode,        \* shape of the upstream feed of this run
  served,      \* the pages of the feed, by position, as far as served
  requestLog,  \* position asked for by each page request issued so far
  pc,          \* position of generateRecap
  fs,          \* the locals of getAllAuthorPosts
  postsResult, \* what getAllAuthorPosts returned, or NoResult
  result,      \* what generateRecap returned, or NoRecap
  error        \* the error generateRecap threw, or ""

fetchVars == <<mode, served, requestLog, pc, fs, postsResult, result, error>>

VARIABLES
  cache,       \* the rows of the table recaps
  now,         \* the wall clock, in days
  req          \* the requests in flight, one per slot

routeVars == <<cache, now, req>>

VARIABLES
  fan,         \* getTopFans at work: its locals and the edge requests in flight
  an,          \* a post set under analysis and what the analyzers made of it
  lt,          \* a time stamp with an offset and its local time components
  call         \* one call of a function of the program: its name, input and output

analysisVars == <<fan, an, lt, call>>

vars == <<fetchVars, routeVars, analysisVars>>

(***************************************************************************)
(* getAllAuthorPosts                                                       *)
(***************************************************************************)
\* the locals before the first pass of the loop
FetchStart ==
  [allPosts |-> <<>>, cursor |-> NoCursor, iterations |-> 0,
   foundPostsFromYear |-> FALSE, consecutivePagesWithoutTargetYear |-> 0,
   hasOlderPosts |-> FALSE, exit |-> "none"]

\* the test with the end of the year let in
InTargetYearClosed(postTime) == postTime >= yearStart /\ postTime <= yearEnd

\* the test of one item in the for loop
InTargetYear(postTime) == postTime >= yearStart /\ postTime < yearEnd

\* for (const item of posts) { ... }
RECURSIVE ScanPage(_, _)
ScanPage(posts, acc) ==
  IF posts = <<>> THEN acc
  ELSE LET postTime == Head(posts) IN
    ScanPage(Tail(posts),
      IF InTargetYear(postTime)
        THEN [acc EXCEPT !.allPosts = Append(@, postTime),
                         !.postsFromYear = @ + 1,
                         !.foundPostsFromYear = TRUE]
      ELSE IF postTime < yearStart
        THEN [acc EXCEPT !.hasOlderPosts = TRUE]
      ELSE acc)

\* the early-stop test, content with one page less
ShouldStopAfterFour(found, consecutive, hasOlder) ==
  found /\ consecutive >= maxConsecutivePagesWithoutTargetYear - 1 /\ hasOlder

\* the early-stop test, asking for one page more
ShouldStopAfterSix(found, consecutive, hasOlder) ==
  found /\ consecutive > maxConsecutivePagesWithoutTargetYear /\ hasOlder

\* the early-stop test at the end of the loop body
ShouldStop(found, consecutive, hasOlder) ==
  found /\ consecutive >= maxConsecutivePagesWithoutTargetYear /\ hasOlder

\* the loop condition with <= for <
LoopConditionInclusive(iterations) == iterations <= maxIterations

\* while (iterations < maxIterations)
LoopCondition(iterations) == iterations < maxIterations

\* the position of the feed a request with this cursor asks for
PositionOf(cursor) == IF cursor = NoCursor THEN 1 ELSE cursor

\* the cursor the upstream hands out with the page at position i
CursorOf(page, i) == IF page.cursor THEN i + 1 ELSE NoCursor

\* the loop body from the parsed response on: the page of a successful
\* response to the request for position i; exit says how the pass ended
HandlePage(s1, page, i) ==
  IF Len(page.feed) = 0 THEN [s1 EXCEPT !.exit = "empty"]
  ELSE
    LET scan == ScanPage(page.feed,
                  [allPosts |-> s1.allPosts, postsFromYear |-> 0,
                   foundPostsFromYear |-> s1.foundPostsFromYear,
                   hasOlderPosts |-> FALSE])
        consecutive == IF scan.postsFromYear > 0 THEN 0
                       ELSE s1.consecutivePagesWithoutTargetYear + 1
        s2 == [s1 EXCEPT !.allPosts = scan.allPosts,
                         !.foundPostsFromYear = scan.foundPostsFromYear,
                         !.hasOlderPosts = scan.hasOlderPosts,
                         !.consecutivePagesWithoutTargetYear = consecutive]
    IN IF CursorOf(page, i) = NoCursor THEN [s2 EXCEPT !.exit = "nocursor"]
       ELSE IF ShouldStop(s2.foundPostsFromYear, consecutive, s2.hasOlderPosts)
         THEN [s2 EXCEPT !.exit = "early"]
       ELSE [s2 EXCEPT !.cursor = CursorOf(page, i)]

\* the loop body taking a failed response for the end of the feed
LoopBodyBreaksOnError(s, page, i) ==
  LET s1 == [s EXCEPT !.iterations = @ + 1] IN
  IF ~page.ok THEN [s1 EXCEPT !.exit = "empty"]
  ELSE HandlePage(s1, page, i)

\* one pass of the loop body on the response `page` to the request for
\* position i
LoopBody(s, page, i) ==
  LET s1 == [s EXCEPT !.iterations = @ + 1] IN
  IF ~page.ok THEN [s1 EXCEPT !.exit = "threw"]
  ELSE HandlePage(s1, page, i)

\* return { posts: allPosts, iterations }
ReturnOf(s) == [posts |-> s.allPosts, iterations |-> s.iterations]

(***************************************************************************)
(* Time.  A Date is counted in minutes since 2023-01-01T00:00Z; seconds    *)
(* pass through getLocalTimeComponents unchanged and are left out.  Months *)
(* are numbered 0..11 and week days 0..6 from Sunday, as Date numbers them. *)
(***************************************************************************)
\* the instant 0 of the model: the start of a Sunday
Epoch == [year |-> 2023, day |-> 0]

IsLeapYear(y) == (y % 4 = 0 /\ y % 100 # 0) \/ y % 400 = 0
DaysInYear(y) == IF IsLeapYear(y) THEN 366 ELSE 365

LengthOfMonth(y, m) ==
  CASE m = 1 -> IF IsLeapYear(y) THEN 29 ELSE 28
    [] m \in {3, 5, 8, 10} -> 30
    [] OTHER -> 31

RECURSIVE DaysBeforeYear(_)
DaysBeforeYear(y) ==
  IF y = Epoch.year THEN 0
  ELSE IF y > Epoch.year THEN DaysBeforeYear(y - 1) + DaysInYear(y - 1)
  ELSE DaysBeforeYear(y + 1) - DaysInYear(y)

RECURSIVE DaysBeforeMonth(_, _)
DaysBeforeMonth(y, m) ==
  IF m = 0 THEN 0 ELSE DaysBeforeMonth(y, m - 1) + LengthOfMonth(y, m - 1)

\* Date.UTC(year, month, date, hours, minutes), with the carry of a month
\* past December and of a date before the first that the callers rely on
DateUTC(year, month, date, hours, minutes) ==
  LET y == year + (month \div 12)
      m == month % 12
  IN ((DaysBeforeYear(y) + DaysBeforeMonth(y, m) + date - 1) * 24 + hours) * 60 + minutes

\* the year of the day n days after 1 January of year y, and the day in it
RECURSIVE YearFrom(_, _)
YearFrom(y, n) ==
  IF n < 0 THEN YearFrom(y - 1, n + DaysInYear(y - 1))
  ELSE IF n >= DaysInYear(y) THEN YearFrom(y + 1, n - DaysInYear(y))
  ELSE [year |-> y, dayOfYear |-> n]

RECURSIVE MonthFrom(_, _, _)
MonthFrom(y, m, n) ==
  IF n >= LengthOfMonth(y, m) THEN MonthFrom(y, m + 1, n - LengthOfMonth(y, m))
  ELSE [month |-> m, date |-> n + 1]

\* the getters of a Date
GetUTCFullYear(t) == YearFrom(Epoch.year, t \div 1440).year
GetUTCMonth(t) ==
  LET yd == YearFrom(Epoch.year, t \div 1440) IN MonthFrom(yd.year, 0, yd.dayOfYear).month
GetUTCDate(t) ==
  LET yd == YearFrom(Epoch.year, t \div 1440) IN MonthFrom(yd.year, 0, yd.dayOfYear).date
GetUTCHours(t) == (t % 1440) \div 60
GetUTCMinutes(t) == t % 60
GetUTCDay(t) == (Epoch.day + (t \div 1440)) % 7

\* the operator % of the program: the remainder has the sign of the dividend
Rem(a, b) == IF a >= 0 THEN a % b ELSE -((-a) % b)

\* the days of the month before `month`
DaysInMonthBefore(year, month) == GetUTCDate(DateUTC(year, month, 0, 0, 0))

\* new Date(year, month + 1, 0).getDate(): the days of `month`
DaysInMonth(year, month) == GetUTCDate(DateUTC(year, month + 1, 0, 0, 0))

\* the local year, month and date of getLocalTimeComponents: the branches
\* on adjustedHours, with the carry over the ends of months and years
LocalDay(utcYear, utcMonth, utcDateNum, adjustedHours) ==
  IF adjustedHours < 0 THEN
    IF utcDateNum - 1 < 1 THEN
      LET localMonth == IF utcMonth - 1 < 0 THEN 11 ELSE utcMonth - 1
          localYear == IF utcMonth - 1 < 0 THEN utcYear - 1 ELSE utcYear
      IN [year |-> localYear, month |-> localMonth,
          dateNum |-> DaysInMonth(localYear, localMonth)]
    ELSE [year |-> utcYear, month |-> utcMonth, dateNum |-> utcDateNum - 1]
  ELSE IF adjustedHours >= 24 THEN
    IF utcDateNum + 1 > DaysInMonth(utcYear, utcMonth) THEN
      IF utcMonth + 1 > 11
        THEN [year |-> utcYear + 1, month |-> 0, dateNum |-> 1]
        ELSE [year |-> utcYear, month |-> utcMonth + 1, dateNum |-> 1]
    ELSE [year |-> utcYear, month |-> utcMonth, dateNum |-> utcDateNum + 1]
  ELSE [year |-> utcYear, month |-> utcMonth, dateNum |-> utcDateNum]

\* const localDate = new Date(Date.UTC(...)) and the object returned;
\* dateStr is given as <<year, month from 1, date>>, the numbers its text
\* is made of
LocalComponents(local, localHours, localMinutes) ==
  CHOOSE components \in
    {[date |-> localDate,
      month |-> GetUTCMonth(localDate),
      day |-> GetUTCDay(localDate),
      hour |-> localHours,
      dateStr |-> <<local.year, local.month + 1, local.dateNum>>] :
       localDate \in {DateUTC(local.year, local.month, local.dateNum,
                              localHours, localMinutes)}} : TRUE

\* getLocalTimeComponents(utcTimestamp, timezoneOffsetMinutes): the UTC
\* getters are read once, then the local day and from it the components
GetLocalTimeComponents(utcTimestamp, timezoneOffsetMinutes) ==
  LET utcHours == GetUTCHours(utcTimestamp)
      utcMinutes == GetUTCMinutes(utcTimestamp)
      totalMinutes == utcMinutes + timezoneOffsetMinutes
      localHours == Rem(utcHours + (totalMinutes \div 60) + 24, 24)
      localMinutes == Rem(Rem(totalMinutes, 60) + 60, 60)
      hoursDiff == (utcMinutes + timezoneOffsetMinutes) \div 60
      adjustedHours == utcHours + hoursDiff
  IN CHOOSE components \in
       {LocalComponents(local, localHours, localMinutes) :
          local \in {LocalDay(utcYear, utcMonth, utcDateNum, adjustedHours) :
                       utcYear \in {GetUTCFullYear(utcTimestamp)},
                       utcMonth \in {GetUTCMonth(utcTimestamp)},
                       utcDateNum \in {GetUTCDate(utcTimestamp)}}} : TRUE

(***************************************************************************)
(* The analyzers of analyzeRecap.  A post is a record with createdAt and,  *)
(* where the upstream sent them, likeCount, repostCount and replyCount;    *)
(* its uri is its place in the post set.                                   *)
(***************************************************************************)
Null == [null |-> TRUE]

\* item.post.likeCount || 0, and so for the other counts
Count(post, field) == IF field \in DOMAIN post THEN post[field] ELSE 0

\* ownPosts.reduce((sum, item) => sum + (item.post[field] || 0), 0)
RECURSIVE Total(_, _)
Total(ownPosts, field) ==
  IF ownPosts = <<>> THEN 0
  ELSE Total(SubSeq(ownPosts, 1, Len(ownPosts) - 1), field)
         + Count(ownPosts[Len(ownPosts)], field)

\* Math.round of a quotient rounded down
MathRoundDown(n, d) == n \div d

\* Math.round(n / d) for d > 0: the nearest integer, a half rounded up
MathRound(n, d) == (2 * n + d) \div (2 * d)

\* (likeCount || 0) + (repostCount || 0) * 2 + (replyCount || 0)
Engagement(post) ==
  Count(post, "likeCount") + Count(post, "repostCount") * 2 + Count(post, "replyCount")

\* the scan taking a later post of equal score
RECURSIVE MaxScanLast(_, _, _, _)
MaxScanLast(scores, k, best, max) ==
  IF k > Len(scores) THEN best
  ELSE IF scores[k] >= max THEN MaxScanLast(scores, k + 1, k, scores[k])
  ELSE MaxScanLast(scores, k + 1, best, max)

\* let top = ownPosts[0]; let max = 0; ownPosts.forEach(item => { if
\* (score > max) { max = score; top = item } }): the place of top from the
\* k-th post on, 0 for the undefined ownPosts[0] of an empty set
RECURSIVE MaxScan(_, _, _, _)
MaxScan(scores, k, best, max) ==
  IF k > Len(scores) THEN best
  ELSE IF scores[k] > max THEN MaxScan(scores, k + 1, k, scores[k])
  ELSE MaxScan(scores, k + 1, best, max)

\* top ? { likes, reposts, replies, uri } : null
Summary(ownPosts, k) ==
  IF k = 0 THEN Null
  ELSE [likes |-> Count(ownPosts[k], "likeCount"),
        reposts |-> Count(ownPosts[k], "repostCount"),
        replies |-> Count(ownPosts[k], "replyCount"),
        uri |-> k]

\* the order of Array.prototype.sort() on date keys YYYY-MM-DD
DateKeyBefore(a, b) ==
  \/ a[1] < b[1]
  \/ a[1] = b[1] /\ a[2] < b[2]
  \/ a[1] = b[1] /\ a[2] = b[2] /\ a[3] < b[3]

\* Array.from(postDates).sort()
RECURSIVE SortedDates(_)
SortedDates(postDates) ==
  IF postDates = {} THEN <<>>
  ELSE LET first == CHOOSE a \in postDates : \A b \in postDates \ {a} : DateKeyBefore(a, b)
       IN <<first>> \o SortedDates(postDates \ {first})

\* new Date(dateStr).getTime() of a date key
DateOfKey(dateStr) == DateUTC(dateStr[1], dateStr[2] - 1, dateStr[3], 0, 0)

\* the streak loop that forgets a run when the next one begins
RECURSIVE StreakLoopForgetful(_, _, _, _)
StreakLoopForgetful(sortedDates, i, longestStreak, currentStreak) ==
  IF i > Len(sortedDates) THEN currentStreak
  ELSE LET diffDays == (DateOfKey(sortedDates[i]) - DateOfKey(sortedDates[i - 1])) \div 1440
       IN IF diffDays = 1
            THEN StreakLoopForgetful(sortedDates, i + 1, longestStreak, currentStreak + 1)
            ELSE StreakLoopForgetful(sortedDates, i + 1, longestStreak, 1)

\* for (let i = 1; i < sortedDates.length; i++) { ... } and the Math.max
\* after it; i counts from 2 as sequences do
RECURSIVE StreakLoop(_, _, _, _)
StreakLoop(sortedDates, i, longestStreak, currentStreak) ==
  IF i > Len(sortedDates)
    THEN IF longestStreak > currentStreak THEN longestStreak ELSE currentStreak
  ELSE LET diffDays == (DateOfKey(sortedDates[i]) - DateOfKey(sortedDates[i - 1])) \div 1440
       IN IF diffDays = 1
            THEN StreakLoop(sortedDates, i + 1, longestStreak, currentStreak + 1)
            ELSE StreakLoop(sortedDates, i + 1,
                   IF longestStreak > currentStreak THEN longestStreak ELSE currentStreak, 1)

\* let longestStreak = 0; let currentStreak = 1; the loop
LongestStreak(postDates) ==
  CHOOSE streak \in {StreakLoop(sortedDates, 2, 0, 1) :
                       sortedDates \in {SortedDates(postDates)}} : TRUE

\* postDates of analyzeRecap: the local date keys of the posts
PostDates(ownPosts, timezoneOffsetMinutes) ==
  {GetLocalTimeComponents(createdAt, timezoneOffsetMinutes).dateStr :
     createdAt \in {ownPosts[k].createdAt : k \in 1..Len(ownPosts)}}

\* the posts' hours, looked up in the hours `local` of their time stamps
HoursFrom(ownPosts, local) == [k \in 1..Len(ownPosts) |-> local[ownPosts[k].createdAt]]

\* the local hours of the posts
LocalHours(ownPosts, timezoneOffsetMinutes) ==
  CHOOSE hours \in
    {HoursFrom(ownPosts, local) :
       local \in {[createdAt \in {ownPosts[k].createdAt : k \in 1..Len(ownPosts)} |->
                     GetLocalTimeComponents(createdAt, timezoneOffsetMinutes).hour]}} : TRUE

\* hourCounts[hour] of analyzeRecap
HourCount(hours, hour) == Cardinality({k \in 1..Len(hours) : hours[k] = hour})

\* Object.entries(hourCounts).sort((a, b) => b[1] - a[1])[0][0]: the keys of
\* hourCounts come in rising order and the sort keeps the order of equal
\* counts
FirstOfMostCounted(hours) ==
  CHOOSE hour \in {hours[k] : k \in 1..Len(hours)} :
    \A other \in {hours[k] : k \in 1..Len(hours)} :
      \/ HourCount(hours, other) < HourCount(hours, hour)
      \/ HourCount(hours, other) = HourCount(hours, hour) /\ hour <= other

\* parseInt(Object.entries(hourCounts).sort(...)[0]?.[0] || "12")
PeakHour(ownPosts, timezoneOffsetMinutes) ==
  IF ownPosts = <<>> THEN 12
  ELSE CHOOSE peak \in {FirstOfMostCounted(hours) :
                          hours \in {LocalHours(ownPosts, timezoneOffsetMinutes)}} : TRUE

\* toLocaleString('default', { month: 'long' }) and { weekday: 'long' } of a
\* local date, by the month and week day the Date numbers
MonthNames ==
  <<"January", "February", "March", "April", "May", "June", "July", "August",
    "September", "October", "November", "December">>
DayNames ==
  <<"Sunday", "Monday", "Tuesday", "Wednesday", "Thursday", "Friday", "Saturday">>

\* local.month and local.day of the posts, the names in input order
LocalNames(ownPosts, timezoneOffsetMinutes) ==
  CHOOSE names \in
    {[k \in 1..Len(ownPosts) |->
        [month |-> MonthNames[local[ownPosts[k].createdAt].month + 1],
         day |-> DayNames[local[ownPosts[k].createdAt].day + 1]]] :
       local \in {[createdAt \in {ownPosts[k].createdAt : k \in 1..Len(ownPosts)} |->
                     GetLocalTimeComponents(createdAt, timezoneOffsetMinutes)]}} : TRUE

\* monthCounts[month] and dayCounts[day] of analyzeRecap
NameCount(names, name) == Cardinality({k \in 1..Len(names) : names[k] = name})

\* Object.entries(counts).sort((a, b) => b[1] - a[1])[0]?.[0] || "Unknown"
\* for counts keyed by names: the keys come in the order of their first
\* insertion and the sort keeps the order of equal counts
MostCountedName(names) ==
  IF names = <<>> THEN "Unknown"
  ELSE names[CHOOSE k \in 1..Len(names) :
               /\ \A j \in 1..Len(names) :
                    NameCount(names, names[j]) <= NameCount(names, names[k])
               /\ \A j \in 1..(k - 1) :
                    NameCount(names, names[j]) < NameCount(names, names[k])]

\* stats, the top posts and patterns of analyzeRecap for the own posts
AnalyzePosts(ownPosts, timezoneOffsetMinutes) ==
  LET totalPosts == Len(ownPosts)
      totalLikes == Total(ownPosts, "likeCount")
      totalReposts == Total(ownPosts, "repostCount")
      totalReplies == Total(ownPosts, "replyCount")
      postDates == PostDates(ownPosts, timezoneOffsetMinutes)
      scoresOf(field) == [k \in 1..Len(ownPosts) |-> Count(ownPosts[k], field)]
  IN [stats |->
        [totalPosts |-> totalPosts,
         totalLikes |-> totalLikes,
         totalReposts |-> totalReposts,
         totalReplies |-> totalReplies,
         totalEngagement |-> totalLikes + totalReposts + totalReplies,
         avgEngagement |->
           IF totalPosts > 0
             THEN MathRound(totalLikes + totalReposts + totalReplies, totalPosts)
             ELSE 0,
         daysActive |-> Cardinality(postDates)],
      topPost |->
        Summary(ownPosts,
          MaxScan([k \in 1..Len(ownPosts) |-> Engagement(ownPosts[k])], 1,
                  IF ownPosts = <<>> THEN 0 ELSE 1, 0)),
      mostLikedPost |->
        Summary(ownPosts, MaxScan(scoresOf("likeCount"), 1, IF ownPosts = <<>> THEN 0 ELSE 1, 0)),
      mostRepostedPost |->
        Summary(ownPosts, MaxScan(scoresOf("repostCount"), 1, IF ownPosts = <<>> THEN 0 ELSE 1, 0)),
      mostRepliedPost |->
        Summary(ownPosts, MaxScan(scoresOf("replyCount"), 1, IF ownPosts = <<>> THEN 0 ELSE 1, 0)),
      patterns |->
        CHOOSE patterns \in
          {[mostActiveMonth |-> MostCountedName([k \in 1..Len(names) |-> names[k].month]),
            mostActiveDay |-> MostCountedName([k \in 1..Len(names) |-> names[k].day]),
            peakHour |-> PeakHour(ownPosts, timezoneOffsetMinutes),
            longestStreak |-> LongestStreak(postDates)] :
             names \in {LocalNames(ownPosts, timezoneOffsetMinutes)}} : TRUE]

\* isTruncated with > for >=
IsTruncatedStrict(fetchedIterations, maxIter) == fetchedIterations > maxIter

\* analyzeRecap: const isTruncated = ...
IsTruncated(fetchedIterations, maxIter) == fetchedIterations >= maxIter

\* the time stamps of the feed's items: a year of ticks begins half an hour
\* into 1 January and ends half an hour before the next; the years count
\* from the one before the target year
CreatedAtOfTick ==
  [t \in Times |->
     LET year == Epoch.year + (t \div TicksPerYear)
         k == t % TicksPerYear
     IN IF k = 0 THEN DateUTC(year, 0, 1, 0, 30)
        ELSE IF k = TicksPerYear - 1 THEN DateUTC(year, 11, 31, 23, 30)
        ELSE DateUTC(year, k, 15, 12, 0)]

\* item.post.record.createdAt, parsed
CreatedAt(t) == CreatedAtOfTick[t]

\* timezoneOffsetMinutes: number = 0, the offset of a call that passes none
DefaultTimezoneOffsetMinutes == 0

\* the top-level facets analyzeRecap returns that the routes look for
RecapFacets ==
  {"profile", "stats", "patterns", "topFans", "topics", "threads", "visualizations"}

\* the object analyzeRecap returns, as far as it derives from the fetch
AnalyzeRecap(posts, profile, fetchedIterations, maxIter, timezoneOffsetMinutes) ==
  LET ownPosts == [k \in 1..Len(posts) |-> [createdAt |-> CreatedAt(posts[k])]]
      postDates == PostDates(ownPosts, timezoneOffsetMinutes)
  IN
  [facets |-> RecapFacets,
   profile |-> profile,
   daysActive |-> Cardinality(postDates),
   patterns |-> [peakHour |-> PeakHour(ownPosts, timezoneOffsetMinutes),
                 longestStreak |-> LongestStreak(postDates)],
   truncated |-> IsTruncated(fetchedIterations, maxIter),
   totalPostsFetched |-> Len(posts),
   iterations |-> fetchedIterations,
   year |-> targetYear]

(***************************************************************************)
(* generateRecap, step by step                                             *)
(***************************************************************************)
\* no request in a slot
IdleReq ==
  [pc |-> "idle", kind |-> "", handle |-> <<>>, tzOffsetMinutes |-> 0,
   readThrew |-> FALSE, looked |-> [none |-> TRUE], lookedAt |-> 0,
   fetchExit |-> "none", upstreamCalls |-> 0,
   recapWithVersion |-> NoRecap, wrote |-> "no", response |-> [status |-> 0],
   \* for the record: the handle of the request body, the keys handed to
   \* findUnique and upsert, the actors handed to generateRecap, and the row
   \* the upsert found in place
   rawHandle |-> <<>>, lookupKeys |-> {}, actors |-> {}, writeKeys |-> {},
   replaced |-> NoRow,
   \* and the posts getAllAuthorPosts returned to it
   fetchedPosts |-> {}]

\* the slots for requests
Reqs == {"r1"}

\* the actor of a lone run of generateRecap
Actor == <<"a">>

InitFetch ==
  /\ cache = {}
  /\ now = 0
  /\ req = [r \in Reqs |-> IdleReq]
  /\ mode \in Modes
  /\ served = <<>>
  /\ requestLog = <<>>
  /\ pc = "createSession"
  /\ fs = FetchStart
  /\ postsResult = NoResult
  /\ result = NoRecap
  /\ error = ""
  /\ fan = NoResult
  /\ an = NoResult
  /\ lt = NoResult
  /\ call = NoResult

\* createSession succeeds
SessionCreated ==
  /\ pc = "createSession"
  /\ pc' = "fetch"
  /\ UNCHANGED <<mode, served, requestLog, fs, postsResult, result, error, routeVars, analysisVars>>

\* createSession throws: credentials missing or rejected
SessionFailed ==
  /\ pc = "createSession"
  /\ \E e \in {"Missing Bluesky credentials", "Failed to authenticate with Bluesky"} :
       error' = e
  /\ pc' = "failed"
  /\ UNCHANGED <<mode, served, requestLog, fs, postsResult, result, routeVars, analysisVars>>

\* one pass of while (iterations < maxIterations): request a page, handle it
FetchPage ==
  /\ pc = "fetch"
  /\ LoopCondition(fs.iterations)
  /\ LET i == PositionOf(fs.cursor) IN
     \E page \in (IF i <= Len(served) THEN {served[i]} ELSE Offer(mode, served)) :
       LET s == LoopBody(fs, page, i) IN
         /\ served' = IF i <= Len(served) THEN served ELSE Append(served, page)
         /\ requestLog' = Append(requestLog, i)
         /\ fs' = s
         /\ pc' = CASE s.exit = "threw" -> "failed"
                    [] s.exit = "none" -> "fetch"
                    [] OTHER -> "getProfile"
         /\ postsResult' = IF s.exit \in {"threw", "none"} THEN postsResult ELSE ReturnOf(s)
         /\ error' = IF s.exit = "threw" THEN "Failed to fetch feed" ELSE error
  /\ UNCHANGED <<mode, result, routeVars, analysisVars>>

\* the loop condition fails: the cap is reached with a cursor in hand
HitCap ==
  /\ pc = "fetch"
  /\ ~LoopCondition(fs.iterations)
  /\ fs' = [fs EXCEPT !.exit = "cap"]
  /\ postsResult' = ReturnOf(fs)
  /\ pc' = "getProfile"
  /\ UNCHANGED <<mode, served, requestLog, result, error, routeVars, analysisVars>>

\* getProfile succeeds
ProfileFetched ==
  /\ pc = "getProfile"
  /\ pc' = "analyzeRecap"
  /\ UNCHANGED <<mode, served, requestLog, fs, postsResult, result, error, routeVars, analysisVars>>

\* getProfile throws
ProfileFailed ==
  /\ pc = "getProfile"
  /\ error' = "Failed to fetch profile"
  /\ pc' = "failed"
  /\ UNCHANGED <<mode, served, requestLog, fs, postsResult, result, routeVars, analysisVars>>

\* analyzeRecap and the return of generateRecap
Analyze ==
  /\ pc = "analyzeRecap"
  /\ result' = AnalyzeRecap(postsResult.posts, Actor, postsResult.iterations,
                            recapMaxIterations, DefaultTimezoneOffsetMinutes)
  /\ pc' = "done"
  /\ UNCHANGED <<mode, served, requestLog, fs, postsResult, error, routeVars, analysisVars>>

NextFetch ==
  \/ SessionCreated
  \/ SessionFailed
  \/ FetchPage
  \/ HitCap
  \/ ProfileFetched
  \/ ProfileFailed
  \/ Analyze

SpecFetch == InitFetch /\ [][NextFetch]_vars

\* every awaited call of the pipeline resolves or rejects
FairSpecFetch == SpecFetch /\ WF_vars(NextFetch)

(***************************************************************************)
(* Properties of the fetcher, stated over the pages the upstream served.   *)
(***************************************************************************)
\* the pages answered to the requests issued so far, in request order
FetchedPages == [k \in 1..Len(requestLog) |-> served[requestLog[k]]]

RECURSIVE ItemsOf(_)
ItemsOf(pages) ==
  IF pages = <<>> THEN <<>> ELSE Head(pages).feed \o ItemsOf(Tail(pages))

WithinYear(t) == yearStart <= t /\ t < yearEnd
HasTargetYearPost(page) == \E k \in 1..Len(page.feed) : WithinYear(page.feed[k])
HasOlderPost(page) == \E k \in 1..Len(page.feed) : page.feed[k] < yearStart
AllOlder(page) == \A k \in 1..Len(page.feed) : page.feed[k] < yearStart
InSeq(q) == {q[k] : k \in 1..Len(q)}

Returned == postsResult # NoResult
LastPage == FetchedPages[Len(requestLog)]

\* C1: the posts getAllAuthorPosts returns are exactly the items of the
\* fetched pages with yearStart <= t < yearEnd, in upstream order; no item
\* before yearStart or at or after yearEnd is among them.
C1_YearWindow ==
  Returned =>
    /\ postsResult.posts = SelectSeq(ItemsOf(FetchedPages), WithinYear)
    /\ \A t \in InSeq(postsResult.posts) : ~(t < yearStart) /\ ~(t >= yearEnd)

\* a return with two posts of the year next to older and later items
C1_Witness ==
  /\ Returned
  /\ Len(postsResult.posts) >= 2
  /\ postsResult.posts[1] # postsResult.posts[2]
  /\ \E t \in InSeq(ItemsOf(FetchedPages)) : t < yearStart
  /\ \E t \in InSeq(ItemsOf(FetchedPages)) : t >= yearEnd

\* the fetch ended on a non-empty page that carried a cursor, before the cap
StoppedEarly ==
  /\ Returned
  /\ LastPage.ok /\ LastPage.feed # <<>> /\ LastPage.cursor
  /\ postsResult.iterations < maxIterations

\* C2: the fetch stops on a non-empty page with a cursor before the cap only
\* if a target-year post was seen on some page, the last 5 (or more) pages
\* each had no target-year post, and the current page has a post older than
\* yearStart; so a gap of fewer than 5 such pages never stops it.
C2_EarlyStopOnlyIf ==
  StoppedEarly =>
    LET n == Len(requestLog) IN
      /\ \E j \in 1..n : HasTargetYearPost(FetchedPages[j])
      /\ n >= 5
      /\ \A j \in (n - 4)..n : ~HasTargetYearPost(FetchedPages[j])
      /\ HasOlderPost(LastPage)

\* an early stop of a fetch that had walked through a shorter gap before
C2_Witness ==
  /\ StoppedEarly
  /\ \E j \in 2..Len(requestLog) :
       /\ HasTargetYearPost(FetchedPages[j])
       /\ ~HasTargetYearPost(FetchedPages[j - 1])

\* pages 1..K each have a target-year post, and every later page served is
\* non-empty, carries a cursor and is entirely older than yearStart
SourceOfK(K) ==
  /\ K <= Len(served)
  /\ \A j \in 1..K : served[j].ok /\ HasTargetYearPost(served[j])
  /\ \A j \in (K + 1)..Len(served) :
       served[j].ok /\ served[j].feed # <<>> /\ served[j].cursor /\ AllOlder(served[j])

\* C3: on a source whose pages 1..K (K >= 1) each have a target-year post
\* and whose later pages are non-empty, carry a cursor and are entirely
\* older than yearStart, at most K + 5 page requests are issued (when
\* K + 5 <= 100) and no item older than yearStart is returned.
C3_StopsWithinKPlus5 ==
  \A K \in 1..Len(served) :
    (SourceOfK(K) /\ K + 5 <= maxIterations) =>
      /\ Len(requestLog) <= K + 5
      /\ Returned => \A t \in InSeq(postsResult.posts) : t >= yearStart

\* such a source with K = 2, walked for all of its 2 + 5 requests
C3_Witness ==
  /\ SourceOfK(2)
  /\ Returned
  /\ Len(requestLog) = 2 + 5

Terminated == pc \in {"done", "failed"}

\* C4: whatever the upstream does, getAllAuthorPosts ends after at most 100
\* page requests, and the iteration count it returns is the number of page
\* requests it issued.
C4_BoundedFetch ==
  /\ <>Terminated
  /\ [](Len(requestLog) <= 100)
  /\ [](Returned => postsResult.iterations = Len(requestLog))

\* the upstream served a non-empty page with a cursor 100 times over
C4_Witness ==
  /\ Returned
  /\ Len(requestLog) = 100
  /\ LastPage.ok /\ LastPage.feed # <<>> /\ LastPage.cursor

\* the three conditions of the early stop hold at the last page fetched
EarlyStopFired ==
  LET n == Len(requestLog) IN
    /\ LastPage.ok /\ LastPage.feed # <<>> /\ LastPage.cursor
    /\ \E j \in 1..n : HasTargetYearPost(FetchedPages[j])
    /\ n >= 5
    /\ \A j \in (n - 4)..n : ~HasTargetYearPost(FetchedPages[j])
    /\ HasOlderPost(LastPage)

\* the fetch ended because the feed had no more to give or the early stop
\* fired
EndedNaturally ==
  /\ Returned
  /\ \/ ~LastPage.cursor
     \/ LastPage.feed = <<>>
     \/ EarlyStopFired

\* C6: truncated is true only if the fetcher hit its cap before the feed
\* was exhausted: after an end by a missing cursor, an empty page or the
\* early stop truncated is false, at whatever iteration that happened.
C6_TruncatedOnlyAtCap ==
  (result # NoRecap /\ EndedNaturally) => ~result.truncated

\* a page request was answered with a non-success response
SawErrorPage == \E k \in 1..Len(requestLog) : ~FetchedPages[k].ok

\* C7: a non-success response to any page request makes getAllAuthorPosts
\* throw and return nothing, the posts of earlier pages included, and
\* generateRecap fails with that error and produces no recap.
C7_PageErrorAborts ==
  SawErrorPage =>
    /\ postsResult = NoResult
    /\ pc = "failed"
    /\ error = "Failed to fetch feed"
    /\ result = NoRecap

\* the failure came after posts of the year had been collected
C7_Witness ==
  /\ SawErrorPage
  /\ Len(requestLog) >= 2
  /\ fs.allPosts # <<>>

(***************************************************************************)
(* Part II: the routes and the cache                                       *)
(***************************************************************************)
\* latest value of the wall clock
MaxNow == 8

\* const CACHE_TTL_MS = 7 * 24 * 60 * 60 * 1000, in days
CACHE_TTL_DAYS == 7

\* const CACHE_VERSION: the commit or deployment of the running build
CACHE_VERSION == "build-2"

\* const REQUIRED_CACHE_FIELDS
REQUIRED_CACHE_FIELDS ==
  {"profile", "stats", "patterns", "topFans", "topics", "threads", "visualizations"}

\* String.prototype.trim on a string given as a sequence of characters
RECURSIVE TrimStart(_)
TrimStart(str) ==
  IF str # <<>> /\ Head(str) = " " THEN TrimStart(Tail(str)) ELSE str

RECURSIVE TrimEnd(_)
TrimEnd(str) ==
  IF str # <<>> /\ str[Len(str)] = " " THEN TrimEnd(SubSeq(str, 1, Len(str) - 1)) ELSE str

Trim(str) == TrimEnd(TrimStart(str))

\* .replace(/^@/, "")
StripAt(str) == IF str # <<>> /\ Head(str) = "@" THEN Tail(str) ELSE str

\* .toLowerCase()
LowerChar(c) == CASE c = "A" -> "a" [] c = "B" -> "b" [] OTHER -> c
ToLowerCase(str) == [k \in 1..Len(str) |-> LowerChar(str[k])]

\* the normalization without its toLowerCase()
NormalizeKeepsCase(handle) == StripAt(Trim(handle))

\* handle.trim().replace(/^@/, "").toLowerCase()
Normalize(handle) == ToLowerCase(StripAt(Trim(handle)))

\* timezoneOffset !== undefined ? parseInt(timezoneOffset) : 0
TzOffsetMinutes(timezoneOffset) ==
  IF timezoneOffset # Undefined THEN timezoneOffset.minutes ELSE 0

\* prisma.recap.findUnique({ where: { handle_year: { handle, year } } })
FindUnique(rows, handle, year) ==
  LET found == {row \in rows : row.handle = handle /\ row.year = year} IN
    IF found = {} THEN NoRow ELSE CHOOSE row \in found : TRUE

\* an upsert that leaves a row it finds as it is
UpsertCreateOnly(rows, handle, year, data, expiresAt) ==
  IF \E row \in rows : row.handle = handle /\ row.year = year THEN rows
  ELSE rows \cup {[handle |-> handle, year |-> year, data |-> data, expiresAt |-> expiresAt]}

\* an upsert on a table without @@unique([handle, year]): it adds its row
UpsertWithoutUnique(rows, handle, year, data, expiresAt) ==
  rows \cup {[handle |-> handle, year |-> year, data |-> data, expiresAt |-> expiresAt]}

\* prisma.recap.upsert: update data and expiresAt of the row, or create it
Upsert(rows, handle, year, data, expiresAt) ==
  {row \in rows : ~(row.handle = handle /\ row.year = year)}
    \cup {[handle |-> handle, year |-> year, data |-> data, expiresAt |-> expiresAt]}

\* cacheValid without the test of expiresAt
CacheValidIgnoresExpiry(cached, date) ==
  /\ cached # NoRow
  /\ \A field \in REQUIRED_CACHE_FIELDS : field \in cached.data.facets
  /\ cached.data.cacheVersion = CACHE_VERSION

\* cacheValid without the test of the cache version
CacheValidIgnoresVersion(cached, date) ==
  /\ cached # NoRow
  /\ cached.expiresAt > date
  /\ \A field \in REQUIRED_CACHE_FIELDS : field \in cached.data.facets

\* const cacheValid = !isExpired && hasRequiredFields && versionMatches
CacheValid(cached, date) ==
  LET isExpired == cached = NoRow \/ cached.expiresAt <= date
      hasRequiredFields ==
        cached # NoRow /\ \A field \in REQUIRED_CACHE_FIELDS : field \in cached.data.facets
      versionMatches == cached # NoRow /\ cached.data.cacheVersion = CACHE_VERSION
  IN ~isExpired /\ hasRequiredFields /\ versionMatches

\* { ...recap, _cacheVersion: CACHE_VERSION }
WithVersion(recap) ==
  [field \in DOMAIN recap \cup {"cacheVersion"} |->
     IF field = "cacheVersion" THEN CACHE_VERSION ELSE recap[field]]

(***************************************************************************)
(* generateRecap as one call, on an upstream given as a whole              *)
(***************************************************************************)
\* the page of the feed at position i
PageAt(up, i) == IF i = 1 THEN up.first ELSE up.rest

\* one turn of the while loop: the test of its condition and, if it holds,
\* the body; a loop that has ended stays as it is
LoopTurn(s, up) ==
  IF s.exit # "none" THEN s
  ELSE IF ~LoopCondition(s.iterations) THEN [s EXCEPT !.exit = "cap"]
  ELSE LoopBody(s, PageAt(up, PositionOf(s.cursor)), PositionOf(s.cursor))

\* n turns of the loop, one after the other: the first half of them, and
\* from the locals m they leave the second half
RECURSIVE LoopTurns(_, _, _)
LoopTurns(s, up, n) ==
  IF n = 0 THEN s
  ELSE IF n = 1 THEN LoopTurn(s, up)
  ELSE CHOOSE t \in {LoopTurns(m, up, n - (n \div 2)) : m \in {LoopTurns(s, up, n \div 2)}} : TRUE

\* getAllAuthorPosts run to its end: the loop has ended at the latest when
\* its condition has been tested maxIterations + 2 times
RunFetch(s, up) == LoopTurns(s, up, maxIterations + 2)

\* the upstreams of the requests: one page of the year and then the same
\* again for ever, or an error, or older posts for ever, or nothing
Upstreams ==
  [session : {"ok", "missing", "rejected"},
   profile : BOOLEAN,
   first : {[ok |-> TRUE, feed |-> <<yearStart>>, cursor |-> c] : c \in BOOLEAN},
   rest : {[ok |-> TRUE, feed |-> <<yearStart>>, cursor |-> TRUE],
           [ok |-> TRUE, feed |-> <<yearStart - 1>>, cursor |-> TRUE],
           ErrorPage}]

\* generateRecap(handle, timezoneOffsetMinutes): the recap or the error,
\* with the number of upstream calls made and the posts fetched; the call
\* of analyzeRecap passes no offset on
GenerateRecap(handle, timezoneOffsetMinutes, up) ==
  IF up.session # "ok"
    THEN [ok |-> FALSE, recap |-> NoRecap, exit |-> "none", calls |-> 1, posts |-> {},
          error |-> IF up.session = "missing" THEN "Missing Bluesky credentials"
                    ELSE "Failed to authenticate with Bluesky"]
  ELSE LET s == RunFetch(FetchStart, up) IN
    IF s.exit = "threw"
      THEN [ok |-> FALSE, recap |-> NoRecap, exit |-> s.exit, calls |-> 1 + s.iterations,
            posts |-> {},
            error |-> "Failed to fetch feed"]
    ELSE IF ~up.profile
      THEN [ok |-> FALSE, recap |-> NoRecap, exit |-> s.exit, calls |-> 2 + s.iterations,
            posts |-> InSeq(ReturnOf(s).posts),
            error |-> "Failed to fetch profile"]
    ELSE [ok |-> TRUE, exit |-> s.exit, calls |-> 2 + s.iterations, error |-> "",
          posts |-> InSeq(ReturnOf(s).posts),
          recap |-> AnalyzeRecap(ReturnOf(s).posts, handle, ReturnOf(s).iterations,
                                 recapMaxIterations, DefaultTimezoneOffsetMinutes)]

(***************************************************************************)
(* The requests                                                            *)
(***************************************************************************)
\* the handles a request body may carry, if it carries one
HandleInputs == {<<>>, <<"@", "A">>, <<"a", " ">>, <<" ", "@", "a">>, <<"A">>}

\* the offsets a request body may carry
TimezoneInputs == {Undefined, [minutes |-> 120]}

\* rows left in the table by earlier deployments
LegacyData ==
  {[facets |-> f, profile |-> <<"a">>, truncated |-> FALSE, totalPostsFetched |-> 0,
    iterations |-> 1, year |-> targetYear, cacheVersion |-> v] :
     f \in {RecapFacets, RecapFacets \ {"threads", "visualizations"}},
     v \in {CACHE_VERSION, "build-1"}}

LegacyRows ==
  {[handle |-> <<"a">>, year |-> targetYear, data |-> d, expiresAt |-> 1] : d \in LegacyData}

Init ==
  /\ cache \in {{}} \cup {{row} : row \in LegacyRows}
  /\ now = 0
  /\ req = [r \in Reqs |-> IdleReq]
  /\ mode = "rich"
  /\ served = <<>>
  /\ requestLog = <<>>
  /\ pc = "off"
  /\ fs = FetchStart
  /\ postsResult = NoResult
  /\ result = NoRecap
  /\ error = ""
  /\ fan = NoResult
  /\ an = NoResult
  /\ lt = NoResult
  /\ call = NoResult

\* the start of either handler, up to its first await, on a request body
\* with a handle of `handles`, if any, and an offset of `offsets`
AcceptFrom(r, kind, handles, offsets) ==
  /\ req[r].pc = "idle"
  /\ \E hasHandle \in BOOLEAN, handle \in handles, timezoneOffset \in offsets :
       IF ~hasHandle \/ handle = <<>>
         THEN req' = [req EXCEPT ![r] =
                [IdleReq EXCEPT !.pc = "done", !.kind = kind,
                   !.response = [status |-> 400, body |-> [error |-> "Handle is required"]]]]
         ELSE req' = [req EXCEPT ![r] =
                [IdleReq EXCEPT !.pc = IF kind = "recap" THEN "lookup" ELSE "generate",
                   !.kind = kind,
                   !.rawHandle = handle,
                   !.handle = Normalize(handle),
                   !.tzOffsetMinutes = TzOffsetMinutes(timezoneOffset)]]
  /\ UNCHANGED <<cache, now, fetchVars, analysisVars>>

\* the start of either handler on any request body
Accept(r, kind) == AcceptFrom(r, kind, HandleInputs, TimezoneInputs)

\* POST /recap arrives
RecapRequest(r) == Accept(r, "recap")

\* POST /recap/regenerate arrives
RegenerateRequest(r) == Accept(r, "regenerate")

\* POST /recap: the cache lookup in its try block
CacheLookup(r) ==
  /\ req[r].pc = "lookup"
  /\ \E threw \in BOOLEAN :
       IF threw
         THEN req' = [req EXCEPT ![r].pc = "generate", ![r].readThrew = TRUE,
                        ![r].lookupKeys = {req[r].handle}]
         ELSE LET cached == FindUnique(cache, req[r].handle, targetYear) IN
           IF CacheValid(cached, now)
             THEN req' = [req EXCEPT ![r].pc = "done", ![r].looked = cached,
                            ![r].lookedAt = now, ![r].lookupKeys = {req[r].handle},
                            ![r].response = [status |-> 200, body |-> cached.data]]
             ELSE req' = [req EXCEPT ![r].pc = "generate", ![r].looked = cached,
                            ![r].lookedAt = now, ![r].lookupKeys = {req[r].handle}]
  /\ UNCHANGED <<cache, now, fetchVars, analysisVars>>

\* a generation whose failure drops the row of the handle from the table
GenerateDropsRowOnFailure(r) ==
  /\ req[r].pc = "generate"
  /\ \E up \in Upstreams :
       \E g \in {GenerateRecap(req[r].handle, req[r].tzOffsetMinutes, up)} :
         IF g.ok
           THEN /\ req' = [req EXCEPT ![r].pc = "save", ![r].fetchExit = g.exit,
                             ![r].fetchedPosts = g.posts,
                             ![r].upstreamCalls = g.calls, ![r].actors = {req[r].handle},
                             ![r].recapWithVersion = WithVersion(g.recap)]
                /\ cache' = cache
           ELSE /\ req' = [req EXCEPT ![r].pc = "done", ![r].fetchExit = g.exit,
                             ![r].upstreamCalls = g.calls, ![r].actors = {req[r].handle},
                             ![r].response = [status |-> 500, body |-> [error |-> g.error]]]
                /\ cache' = {row \in cache :
                               ~(row.handle = req[r].handle /\ row.year = targetYear)}
  /\ UNCHANGED <<now, fetchVars, analysisVars>>

\* either handler: await generateRecap(handle, tzOffsetMinutes), the
\* upstream being one of `upstreams`
GenerateFrom(r, upstreams) ==
  /\ req[r].pc = "generate"
  /\ \E up \in upstreams :
       \E g \in {GenerateRecap(req[r].handle, req[r].tzOffsetMinutes, up)} :
         IF g.ok
           THEN req' = [req EXCEPT ![r].pc = "save", ![r].fetchExit = g.exit,
                          ![r].fetchedPosts = g.posts,
                          ![r].upstreamCalls = g.calls, ![r].actors = {req[r].handle},
                          ![r].recapWithVersion = WithVersion(g.recap)]
           ELSE req' = [req EXCEPT ![r].pc = "done", ![r].fetchExit = g.exit,
                          ![r].upstreamCalls = g.calls, ![r].actors = {req[r].handle},
                          ![r].response = [status |-> 500, body |-> [error |-> g.error]]]
  /\ UNCHANGED <<cache, now, fetchVars, analysisVars>>

\* either handler: await generateRecap(handle, tzOffsetMinutes)
Generate(r) == GenerateFrom(r, Upstreams)

\* the upsert outside a try block: its error reaches the outer catch
CacheSaveRethrows(r) ==
  /\ req[r].pc = "save"
  /\ \E threw \in BOOLEAN :
       /\ cache' = IF threw THEN cache
                   ELSE Upsert(cache, req[r].handle, targetYear,
                               req[r].recapWithVersion, now + CACHE_TTL_DAYS)
       /\ req' = [req EXCEPT ![r].pc = "done",
                    ![r].wrote = IF threw THEN "threw" ELSE "ok",
                    ![r].writeKeys = {req[r].handle},
                    ![r].replaced = IF threw THEN NoRow
                                    ELSE FindUnique(cache, req[r].handle, targetYear),
                    ![r].response =
                      IF threw THEN [status |-> 500, body |-> [error |-> "Unknown error"]]
                      ELSE [status |-> 200, body |-> req[r].recapWithVersion]]
  /\ UNCHANGED <<now, fetchVars, analysisVars>>

\* either handler: the upsert in its try block, then res.json
CacheSave(r) ==
  /\ req[r].pc = "save"
  /\ \E threw \in BOOLEAN :
       /\ cache' = IF threw THEN cache
                   ELSE Upsert(cache, req[r].handle, targetYear,
                               req[r].recapWithVersion, now + CACHE_TTL_DAYS)
       /\ req' = [req EXCEPT ![r].pc = "done",
                    ![r].wrote = IF threw THEN "threw" ELSE "ok",
                    ![r].writeKeys = {req[r].handle},
                    ![r].replaced = IF threw THEN NoRow
                                    ELSE FindUnique(cache, req[r].handle, targetYear),
                    ![r].response = [status |-> 200, body |-> req[r].recapWithVersion]]
  /\ UNCHANGED <<now, fetchVars, analysisVars>>

\* the response is out; the slot takes the next request
Finish(r) ==
  /\ req[r].pc = "done"
  /\ req' = [req EXCEPT ![r] = IdleReq]
  /\ UNCHANGED <<cache, now, fetchVars, analysisVars>>

\* time passes, up to `latest`
TickTo(latest) ==
  /\ now < latest
  /\ now' \in (now + 1)..latest
  /\ UNCHANGED <<cache, req, fetchVars, analysisVars>>

\* time passes
Tick == TickTo(MaxNow)

Next ==
  \/ \E r \in Reqs : RecapRequest(r)
  \/ \E r \in Reqs : RegenerateRequest(r)
  \/ \E r \in Reqs : CacheLookup(r)
  \/ \E r \in Reqs : Generate(r)
  \/ \E r \in Reqs : CacheSave(r)
  \/ \E r \in Reqs : Finish(r)
  \/ Tick

Spec == Init /\ [][Next]_vars

(***************************************************************************)
(* Properties of the routes                                                *)
(***************************************************************************)
\* the rows of the table under the key of request r
EntriesOf(rows, r) == {row \in rows : row.handle = req[r].handle /\ row.year = targetYear}

\* a row that is neither expired at time t nor invalid
ValidEntry(row, t) ==
  /\ row # NoRow
  /\ row.expiresAt > t
  /\ REQUIRED_CACHE_FIELDS \subseteq row.data.facets
  /\ row.data.cacheVersion = CACHE_VERSION

\* request r comes out of its cache lookup, which did not throw
LookedUp(r) == req[r].pc = "lookup" /\ req'[r].pc # "lookup" /\ ~req'[r].readThrew

\* request r comes out of its cache write, which did not throw
Saved(r) == req[r].pc = "save" /\ req'[r].pc = "done" /\ req'[r].wrote = "ok"

\* C5: when the fetcher left its loop at the cap of 100 iterations with a
\* cursor still on offer, the recap of that request has truncated = true,
\* and this is the recap the caller receives and the cache is given.
C5_TruncatedAtCap ==
  /\ [](\A r \in Reqs :
          (req[r].fetchExit = "cap" /\ req[r].recapWithVersion # NoRecap) =>
            /\ req[r].upstreamCalls = 100 + 2
            /\ req[r].recapWithVersion.truncated
            /\ req[r].pc = "done" =>
                 req[r].response = [status |-> 200, body |-> req[r].recapWithVersion])
  /\ [][\A r \in Reqs :
          (Saved(r) /\ req[r].fetchExit = "cap") =>
            \A row \in EntriesOf(cache', r) : row.data.truncated]_vars

\* a recap of a fetch that ran into the cap, answered and written
C5_Witness ==
  \E r \in Reqs :
    /\ req[r].fetchExit = "cap"
    /\ req[r].pc = "done"
    /\ req[r].wrote = "ok"
    /\ req[r].response.status = 200
    /\ \E row \in EntriesOf(cache, r) : row.data = req[r].response.body

\* C8: in POST /recap, a lookup that finds a valid entry for the normalized
\* handle and the current year answers with the stored recap, makes no
\* upstream call and leaves the table as it is; the handler goes on to
\* generate only if the entry is missing, expired (expiresAt <= now) or
\* invalid.  (A lookup that throws counts as a miss, see C10.)
C8_CacheHit ==
  /\ [][\A r \in Reqs :
          LookedUp(r) =>
            IF \E row \in EntriesOf(cache, r) : ValidEntry(row, now)
              THEN /\ req'[r].pc = "done"
                   /\ \E row \in EntriesOf(cache, r) :
                        req'[r].response = [status |-> 200, body |-> row.data]
                   /\ req'[r].upstreamCalls = 0
                   /\ cache' = cache
              ELSE req'[r].pc = "generate"]_vars
  /\ [](\A r \in Reqs :
          (req[r].kind = "recap" /\ ~req[r].readThrew
             /\ (req[r].pc \in {"generate", "save"} \/ req[r].upstreamCalls > 0)) =>
            \/ req[r].looked = NoRow
            \/ req[r].looked.expiresAt <= req[r].lookedAt
            \/ ~(REQUIRED_CACHE_FIELDS \subseteq req[r].looked.data.facets)
            \/ req[r].looked.data.cacheVersion # CACHE_VERSION)

\* a hit on an entry that an earlier request of this build wrote
C8_Witness ==
  \E r \in Reqs :
    /\ req[r].kind = "recap"
    /\ req[r].pc = "done"
    /\ req[r].response.status = 200
    /\ req[r].upstreamCalls = 0
    /\ req[r].looked # NoRow
    /\ req[r].looked.expiresAt >= CACHE_TTL_DAYS
    /\ req[r].response.body = req[r].looked.data

\* the entry request r found carries another cache version than the build
FoundOtherVersion(r) ==
  /\ req[r].kind = "recap"
  /\ req[r].looked # NoRow
  /\ req[r].looked.data.cacheVersion # CACHE_VERSION

\* C9: in POST /recap a stored entry whose cache version differs from the
\* current one is never returned, also when its expiresAt lies in the
\* future: the recap is generated anew and the entry overwritten.
C9_VersionMismatch ==
  /\ [][\A r \in Reqs :
          (LookedUp(r) /\ \E row \in EntriesOf(cache, r) : row.data.cacheVersion # CACHE_VERSION)
            => req'[r].pc = "generate"]_vars
  /\ [](\A r \in Reqs :
          FoundOtherVersion(r) =>
            /\ req[r].pc \in {"generate", "save", "done"}
            /\ req[r].pc = "done" =>
                 /\ req[r].upstreamCalls > 0
                 /\ req[r].response.body # req[r].looked.data
            /\ req[r].wrote = "ok" =>
                 /\ EntriesOf(cache, r) # {}
                 /\ \A row \in EntriesOf(cache, r) : row.data.cacheVersion = CACHE_VERSION)

\* an unexpired, complete entry of another version was found and replaced
C9_Witness ==
  \E r \in Reqs :
    /\ FoundOtherVersion(r)
    /\ req[r].looked.expiresAt > req[r].lookedAt
    /\ REQUIRED_CACHE_FIELDS \subseteq req[r].looked.data.facets
    /\ req[r].pc = "done"
    /\ req[r].wrote = "ok"

GenerationErrors ==
  {"Missing Bluesky credentials", "Failed to authenticate with Bluesky",
   "Failed to fetch feed", "Failed to fetch profile"}

\* C10: a failure of the cache store fails no request.  After a cache read
\* that throws POST /recap goes on to generate as on a miss; after a cache
\* write that throws, in either handler, the fresh recap is answered with
\* success; an error answer never stems from the store.
C10_StoreFailureTolerated ==
  \A r \in Reqs :
    /\ req[r].readThrew =>
         /\ req[r].pc \in {"generate", "save", "done"}
         /\ req[r].pc \in {"save", "done"} => req[r].upstreamCalls > 0
    /\ req[r].wrote = "threw" =>
         /\ req[r].recapWithVersion # NoRecap
         /\ req[r].response = [status |-> 200, body |-> req[r].recapWithVersion]
    /\ req[r].response.status = 500 =>
         /\ req[r].recapWithVersion = NoRecap
         /\ req[r].response.body.error \in GenerationErrors

\* a request whose cache read and cache write both threw, answered 200
C10_Witness ==
  \E r \in Reqs :
    /\ req[r].readThrew
    /\ req[r].wrote = "threw"
    /\ req[r].pc = "done"
    /\ req[r].response.status = 200

\* C11: POST /recap/regenerate never reads the cache and always runs a full
\* generation; when the generation succeeds and the write goes through, the
\* table holds for the normalized handle and the current year exactly one
\* row, with the new recap, the current cache version and expiresAt = now +
\* 7 days, whatever row was there before.
C11_ForceRegenerate ==
  /\ [](\A r \in Reqs :
          req[r].kind = "regenerate" =>
            /\ req[r].pc \in {"generate", "save", "done"}
            /\ req[r].lookupKeys = {} /\ req[r].looked = NoRow /\ ~req[r].readThrew
            /\ (req[r].pc \in {"save", "done"} /\ req[r].response.status # 400)
                 => req[r].upstreamCalls > 0)
  /\ [][\A r \in Reqs :
          (Saved(r) /\ req[r].kind = "regenerate") =>
            /\ req[r].recapWithVersion.cacheVersion = CACHE_VERSION
            /\ EntriesOf(cache', r) =
                 {[handle |-> req[r].handle, year |-> targetYear,
                   data |-> req[r].recapWithVersion, expiresAt |-> now + 7]}
            /\ req'[r].response = [status |-> 200, body |-> req[r].recapWithVersion]]_vars

\* a forced regeneration has replaced a row that was still valid
C11_Witness ==
  \E r \in Reqs :
    /\ req[r].kind = "regenerate"
    /\ req[r].pc = "done"
    /\ req[r].wrote = "ok"
    /\ ValidEntry(req[r].replaced, now)
    /\ \E row \in EntriesOf(cache, r) : row # req[r].replaced

\* request bodies that differ from "a" in surrounding blanks, a leading @
\* and letter case only
SpellingsOfA == {<<"@", "A">>, <<"a", " ">>, <<" ", "@", "a">>, <<"A">>}

\* C12: both handlers normalize the handle before they use it: a request
\* whose handle differs from "a" only in surrounding blanks, a leading @ or
\* letter case looks up, generates for and writes under "a" and nothing else.
C12_SameNormalization ==
  /\ \A r \in Reqs :
       req[r].rawHandle \in SpellingsOfA =>
         /\ req[r].lookupKeys \subseteq {<<"a">>}
         /\ req[r].actors \subseteq {<<"a">>}
         /\ req[r].writeKeys \subseteq {<<"a">>}
         /\ req[r].kind = "recap" => (req[r].pc = "lookup" \/ req[r].lookupKeys = {<<"a">>})
         /\ req[r].upstreamCalls > 0 => req[r].actors = {<<"a">>}
         /\ req[r].recapWithVersion # NoRecap => req[r].recapWithVersion.profile = <<"a">>
         /\ req[r].wrote # "no" => req[r].writeKeys = {<<"a">>}
  /\ \A row \in cache : row.handle = <<"a">>

\* a regeneration asked for as "@A" has replaced the row that an earlier
\* request of this run wrote
C12_Witness ==
  \E r \in Reqs :
    /\ req[r].kind = "regenerate"
    /\ req[r].rawHandle = <<"@", "A">>
    /\ req[r].pc = "done"
    /\ req[r].wrote = "ok"
    /\ req[r].replaced # NoRow
    /\ req[r].replaced.expiresAt >= CACHE_TTL_DAYS

\* request r comes out of a generation that failed
GenerationFailed(r) == req[r].pc = "generate" /\ req'[r].pc = "done"

\* C28: when the generation fails fatally, in either handler, no cache write
\* happens: the step of the failure and every step of the request before it
\* leave the table as it is, so the row of the handle, absent, expired, of
\* another version or valid, is the one the request found; the caller gets
\* status 500 with the error of the generation and no recap.
C28_FailedGenerationWritesNothing ==
  /\ [](\A r \in Reqs :
          req[r].response.status = 500 =>
            /\ req[r].wrote = "no" /\ req[r].writeKeys = {}
            /\ req[r].recapWithVersion = NoRecap
            /\ req[r].upstreamCalls > 0
            /\ DOMAIN req[r].response.body = {"error"}
            /\ req[r].response.body.error \in GenerationErrors
            /\ (req[r].kind = "recap" /\ ~req[r].readThrew) =>
                 FindUnique(cache, req[r].handle, targetYear) = req[r].looked)
  /\ [][\A r \in Reqs :
          /\ GenerationFailed(r) => (cache' = cache /\ req'[r].response.status = 500)
          /\ (req[r].pc = "generate" /\ req'[r].pc = "save") =>
               (cache' = cache /\ req'[r].recapWithVersion # NoRecap)
          /\ cache' # cache => Saved(r)]_vars

\* a forced regeneration has failed over a row that is still valid, and the
\* row is in the table as before
C28_Witness ==
  \E r \in Reqs :
    /\ req[r].kind = "regenerate"
    /\ req[r].pc = "done"
    /\ req[r].response.status = 500
    /\ req[r].response.body.error = "Failed to fetch feed"
    /\ ValidEntry(FindUnique(cache, req[r].handle, targetYear), now)

\* request r has been answered from the cache with a recap of some posts
ServedFromCache(r) ==
  /\ req[r].kind = "recap"
  /\ req[r].pc = "done"
  /\ req[r].response.status = 200
  /\ req[r].wrote = "no"
  /\ req[r].looked # NoRow
  /\ req[r].response.body = req[r].looked.data
  /\ "patterns" \in DOMAIN req[r].response.body
  /\ req[r].response.body.totalPostsFetched > 0

\* C26: the recap POST /recap answers from the cache has its time facets at
\* the offset of the request it answers: its peak hour is the hour, at that
\* offset, of the posts the upstream holds for the year, whatever the offset
\* of the request that wrote the row.
C26_CacheServesRequestOffset ==
  \A r \in Reqs :
    ServedFromCache(r) =>
      req[r].response.body.patterns.peakHour \in
        {GetUTCHours(CreatedAt(t) + req[r].tzOffsetMinutes) : t \in {yearStart}}

(***************************************************************************)
(* Two requests in flight at once.  Each await of a handler is one step,   *)
(* and the steps of the two handlers interleave in any order; the upsert   *)
(* is one statement of the store, which under @@unique([handle, year])     *)
(* either goes through or throws.                                          *)
(***************************************************************************)
\* the slots of the two requests
RaceReqs == {"r1", "r2"}

\* latest value of the wall clock while the two are in flight
RaceMaxNow == 2

\* the handle the requests are for, as their bodies spell it
RaceHandles == {<<"@", "A">>}

\* no offset in the request bodies
RaceOffsets == {Undefined}

\* the upstreams of the two requests: the session is made or rejected, the
\* feed is one page or one page and a page of older posts
RaceUpstreams ==
  {up \in Upstreams :
     /\ up.session \in {"ok", "rejected"}
     /\ up.profile
     /\ up.rest = [ok |-> TRUE, feed |-> <<yearStart - 1>>, cursor |-> TRUE]}

InitRace ==
  /\ cache \in {{}} \cup {{row} : row \in LegacyRows}
  /\ now = 0
  /\ req = [r \in RaceReqs |-> IdleReq]
  /\ mode = "rich"
  /\ served = <<>>
  /\ requestLog = <<>>
  /\ pc = "off"
  /\ fs = FetchStart
  /\ postsResult = NoResult
  /\ result = NoRecap
  /\ error = ""
  /\ fan = NoResult
  /\ an = NoResult
  /\ lt = NoResult
  /\ call = NoResult

NextRace ==
  \/ \E r \in RaceReqs : AcceptFrom(r, "recap", RaceHandles, RaceOffsets)
  \/ \E r \in RaceReqs : AcceptFrom(r, "regenerate", RaceHandles, RaceOffsets)
  \/ \E r \in RaceReqs : CacheLookup(r)
  \/ \E r \in RaceReqs : GenerateFrom(r, RaceUpstreams)
  \/ \E r \in RaceReqs : CacheSave(r)
  \/ \E r \in RaceReqs : Finish(r)
  \/ TickTo(RaceMaxNow)

SpecRace == InitRace /\ [][NextRace]_vars

\* the recaps one generation for request r may return
GenerationsFor(r) ==
  {WithVersion(g.recap) :
     g \in {h \in {GenerateRecap(req[r].handle, req[r].tzOffsetMinutes, up) :
                      up \in RaceUpstreams} : h.ok}}

\* C27: however the steps of concurrent POST /recap and POST
\* /recap/regenerate requests for one handle interleave, the table holds at
\* most one row per (handle, year) at every moment, and every row written
\* is, whole, what one request wrote in one step: the recap one generation
\* returned to that request, unchanged since, with the cache version of the
\* build and expiresAt = the time of the write + 7 days; no other step
\* changes the table.
C27_OneWholeEntryPerKey ==
  /\ [](\A row1 \in cache, row2 \in cache :
          (row1.handle = row2.handle /\ row1.year = row2.year) => row1 = row2)
  /\ [][\A r \in RaceReqs :
          /\ (req[r].pc = "generate" /\ req'[r].pc = "save") =>
               req'[r].recapWithVersion \in GenerationsFor(r)
          /\ (req[r].pc = "save" /\ req'[r].pc = "save") =>
               req'[r].recapWithVersion = req[r].recapWithVersion]_vars
  /\ [][cache' # cache =>
          \E r \in RaceReqs :
            /\ Saved(r)
            /\ \A other \in RaceReqs \ {r} : req'[other] = req[other]
            /\ req[r].recapWithVersion.cacheVersion = CACHE_VERSION
            /\ REQUIRED_CACHE_FIELDS \subseteq req[r].recapWithVersion.facets
            /\ cache' \ cache \subseteq
                 {[handle |-> req[r].handle, year |-> targetYear,
                   data |-> req[r].recapWithVersion,
                   expiresAt |-> now + CACHE_TTL_DAYS]}
            /\ cache \ cache' \subseteq EntriesOf(cache, r)]_vars

\* both requests, one of each kind and in flight together, have written
\* different recaps for the one handle at different times, and the table
\* holds the row of the later write alone
C27_Witness ==
  /\ req["r1"].kind = "recap" /\ req["r2"].kind = "regenerate"
  /\ req["r1"].pc = "done" /\ req["r2"].pc = "done"
  /\ req["r1"].wrote = "ok" /\ req["r2"].wrote = "ok"
  /\ req["r1"].handle = req["r2"].handle
  /\ req["r1"].recapWithVersion # req["r2"].recapWithVersion
  /\ ~req["r1"].readThrew /\ req["r1"].looked # req["r1"].replaced
  /\ req["r1"].replaced # NoRow
  /\ req["r1"].replaced.data = req["r2"].recapWithVersion
  /\ req["r1"].replaced.expiresAt < now + CACHE_TTL_DAYS
  /\ cache = {[handle |-> req["r1"].handle, year |-> targetYear,
               data |-> req["r1"].recapWithVersion, expiresAt |-> now + CACHE_TTL_DAYS]}

(***************************************************************************)
(* Part III: the analyzers on post sets and time stamps of their own      *)
(***************************************************************************)
\* most posts of a post set with counts
MaxPosts == 2
\* largest like, repost or reply count of a post
MaxCount == 1

CountFields == {"likeCount", "repostCount", "replyCount"}

\* the record `post` without the fields `fields`
Without(post, fields) == [f \in DOMAIN post \ fields |-> post[f]]

\* posts of one instant that carry some, all or none of the three counts
CountedPosts ==
  {Without(post, fields) :
     post \in [likeCount : 0..MaxCount, repostCount : 0..MaxCount,
               replyCount : 0..MaxCount, createdAt : {0}],
     fields \in SUBSET CountFields}

\* instants late and early in the day around 29 February and the new year
Stamps ==
  {DateUTC(2024, 1, 27, 23, 30), DateUTC(2024, 1, 28, 23, 30), DateUTC(2024, 1, 29, 0, 30),
   DateUTC(2024, 1, 29, 23, 30), DateUTC(2024, 2, 2, 12, 0), DateUTC(2024, 11, 30, 23, 30),
   DateUTC(2024, 11, 31, 23, 30), DateUTC(2025, 0, 1, 23, 30)}

\* the posts of the instants `stamps`, the latest first as the feed has them
RECURSIVE DatedPosts(_)
DatedPosts(stamps) ==
  IF stamps = {} THEN <<>>
  ELSE LET latest == CHOOSE t \in stamps : \A u \in stamps : u <= t
       IN <<[createdAt |-> latest]>> \o DatedPosts(stamps \ {latest})

\* the post sets put before the analyzers
AnalysisInputs ==
  [posts : SeqsUpTo(CountedPosts, MaxPosts), timezoneOffsetMinutes : {0}, out : {NoResult}]
    \cup [posts : {DatedPosts(stamps) : stamps \in SUBSET Stamps},
          timezoneOffsetMinutes : {-60, 0, 60}, out : {NoResult}]

\* the offsets in use on earth, in minutes ahead of UTC
Offsets == (-720)..840

\* instants at the edges of days, months and years
Instants ==
  {DateUTC(d[1], d[2], d[3], c[1], c[2]) :
     d \in {<<2023, 11, 31>>, <<2024, 0, 1>>, <<2024, 1, 28>>, <<2024, 1, 29>>, <<2024, 2, 1>>,
            <<2024, 3, 30>>, <<2024, 11, 31>>, <<2025, 1, 28>>, <<2025, 2, 1>>},
     c \in {<<0, 0>>, <<0, 1>>, <<11, 59>>, <<12, 0>>, <<23, 59>>}}

LocalTimeInputs ==
  [utcTimestamp : Instants, timezoneOffsetMinutes : Offsets, out : {NoResult}]

InitAnalyze ==
  /\ cache = {}
  /\ now = 0
  /\ req = [r \in Reqs |-> IdleReq]
  /\ mode = "rich"
  /\ served = <<>>
  /\ requestLog = <<>>
  /\ pc = "off"
  /\ fs = FetchStart
  /\ postsResult = NoResult
  /\ result = NoRecap
  /\ error = ""
  /\ fan = NoResult
  /\ \/ an \in AnalysisInputs /\ lt = NoResult
     \/ lt \in LocalTimeInputs /\ an = NoResult
  /\ call = NoResult

\* the analyzers run on the post set
AnalyzeOwnPosts ==
  /\ an # NoResult
  /\ an.out = NoResult
  /\ an' = [an EXCEPT !.out = AnalyzePosts(an.posts, an.timezoneOffsetMinutes)]
  /\ UNCHANGED <<fetchVars, routeVars, fan, lt, call>>

\* getLocalTimeComponents runs on the time stamp
Localize ==
  /\ lt # NoResult
  /\ lt.out = NoResult
  /\ lt' = [lt EXCEPT !.out = GetLocalTimeComponents(lt.utcTimestamp, lt.timezoneOffsetMinutes)]
  /\ UNCHANGED <<fetchVars, routeVars, fan, an, call>>

NextAnalyze ==
  \/ AnalyzeOwnPosts
  \/ Localize

SpecAnalyze == InitAnalyze /\ [][NextAnalyze]_vars

Analyzed == an # NoResult /\ an.out # NoResult
Localized == lt # NoResult /\ lt.out # NoResult

\* C16: for every time stamp and every offset from -720 to +840 minutes
\* getLocalTimeComponents returns the hour (0..23), the date key, the month
\* and the week day of the instant time stamp + offset.
C16_LocalTime ==
  Localized =>
    LET t == lt.utcTimestamp + lt.timezoneOffsetMinutes IN
      /\ lt.out.hour \in 0..23
      /\ lt.out.hour = GetUTCHours(t)
      /\ lt.out.dateStr = <<GetUTCFullYear(t), GetUTCMonth(t) + 1, GetUTCDate(t)>>
      /\ lt.out.month = GetUTCMonth(t)
      /\ lt.out.day = GetUTCDay(t)

\* the first minutes of 1 March 2024 seen from behind UTC: 29 February
C16_Witness ==
  /\ Localized
  /\ GetUTCDate(lt.utcTimestamp) = 1
  /\ lt.timezoneOffsetMinutes < 0
  /\ lt.out.dateStr = <<2024, 2, 29>>

\* the value of a count, 0 for a post without it
ValueOf(post, field) == IF field \notin DOMAIN post THEN 0 ELSE post[field]

\* the sum of a count over the posts
RECURSIVE SumOf(_, _)
SumOf(posts, field) ==
  IF posts = <<>> THEN 0 ELSE ValueOf(Head(posts), field) + SumOf(Tail(posts), field)

\* C18: totalEngagement = totalLikes + totalReposts + totalReplies, each
\* total the sum of that count over the posts with a missing count as 0;
\* avgEngagement is 0 for no posts and else the integer nearest to
\* totalEngagement / totalPosts, a half rounded up.
C18_Totals ==
  Analyzed =>
    LET stats == an.out.stats IN
      /\ stats.totalPosts = Len(an.posts)
      /\ stats.totalLikes = SumOf(an.posts, "likeCount")
      /\ stats.totalReposts = SumOf(an.posts, "repostCount")
      /\ stats.totalReplies = SumOf(an.posts, "replyCount")
      /\ stats.totalEngagement = stats.totalLikes + stats.totalReposts + stats.totalReplies
      /\ stats.totalPosts = 0 => stats.avgEngagement = 0
      /\ stats.totalPosts > 0 =>
           /\ 2 * stats.avgEngagement * stats.totalPosts - stats.totalPosts
                <= 2 * stats.totalEngagement
           /\ 2 * stats.totalEngagement
                < 2 * stats.avgEngagement * stats.totalPosts + stats.totalPosts

\* two posts, one without a like count, of 3 engagements: 1.5 on average
C18_Witness ==
  /\ Analyzed
  /\ an.out.stats.totalPosts = 2
  /\ an.out.stats.totalEngagement = 3
  /\ an.out.stats.avgEngagement = 2
  /\ \E k \in 1..Len(an.posts) : "likeCount" \notin DOMAIN an.posts[k]

\* the first place in the posts whose score is the largest, 0 if none
FirstMax(posts, Score(_)) ==
  IF posts = <<>> THEN 0
  ELSE CHOOSE k \in 1..Len(posts) :
         /\ \A j \in 1..Len(posts) : Score(posts[j]) <= Score(posts[k])
         /\ \A j \in 1..(k - 1) : Score(posts[j]) < Score(posts[k])

WeightedScore(post) ==
  ValueOf(post, "likeCount") + 2 * ValueOf(post, "repostCount") + ValueOf(post, "replyCount")
LikeScore(post) == ValueOf(post, "likeCount")
RepostScore(post) == ValueOf(post, "repostCount")
ReplyScore(post) == ValueOf(post, "replyCount")

\* the summary `pick` is that of the k-th post
Picks(pick, posts, k) ==
  IF k = 0 THEN pick = Null
  ELSE /\ pick # Null
       /\ pick.uri = k
       /\ pick.likes = ValueOf(posts[k], "likeCount")
       /\ pick.reposts = ValueOf(posts[k], "repostCount")
       /\ pick.replies = ValueOf(posts[k], "replyCount")

\* C19: topPost is null for no posts and else the first post in input
\* order among those with the largest likes + 2 * reposts + replies;
\* mostLikedPost, mostRepostedPost and mostRepliedPost are each the first
\* post with the largest value of that one count.
C19_TopPosts ==
  Analyzed =>
    /\ an.posts = <<>> => an.out.topPost = Null
    /\ Picks(an.out.topPost, an.posts, FirstMax(an.posts, WeightedScore))
    /\ Picks(an.out.mostLikedPost, an.posts, FirstMax(an.posts, LikeScore))
    /\ Picks(an.out.mostRepostedPost, an.posts, FirstMax(an.posts, RepostScore))
    /\ Picks(an.out.mostRepliedPost, an.posts, FirstMax(an.posts, ReplyScore))

\* two posts of equal weighted score and more than 0: the first is the top
\* post, the second the most reposted one
C19_Witness ==
  /\ Analyzed
  /\ Len(an.posts) = 2
  /\ WeightedScore(an.posts[1]) = WeightedScore(an.posts[2])
  /\ WeightedScore(an.posts[1]) > 0
  /\ an.out.topPost.uri = 1
  /\ an.out.mostLikedPost.uri = 1
  /\ an.out.mostRepostedPost.uri = 2

\* the days, counted from the epoch, on which the posts fall at the offset
LocalDays(posts, offset) == {(posts[k].createdAt + offset) \div 1440 : k \in 1..Len(posts)}

\* the length of the longest run of days following one another in `days`
LongestRun(days) ==
  LET runs == {<<a, b>> \in days \X days : a <= b /\ \A n \in a..b : n \in days}
  IN CHOOSE len \in 1..Cardinality(days) :
       /\ \E run \in runs : run[2] - run[1] + 1 = len
       /\ \A run \in runs : run[2] - run[1] + 1 <= len

\* C20: for a post set that is not empty, longestStreak is the length of
\* the longest run of consecutive calendar days among the local dates with
\* a post; posts of one day give 1, and no post added lessens it.
C20_Streak ==
  (Analyzed /\ an.posts # <<>>) =>
    LET days == LocalDays(an.posts, an.timezoneOffsetMinutes) IN
      /\ an.out.patterns.longestStreak = LongestRun(days)
      /\ Cardinality(days) = 1 => an.out.patterns.longestStreak = 1
      /\ \A k \in 1..Len(an.posts) :
           LongestStreak(PostDates(SubSeq(an.posts, 1, k), an.timezoneOffsetMinutes))
             <= an.out.patterns.longestStreak

\* posts on five days seen from ahead of UTC, the longest run 3 days long
\* and earlier than a shorter one
C20_Witness ==
  /\ Analyzed
  /\ an.timezoneOffsetMinutes > 0
  /\ Cardinality(LocalDays(an.posts, an.timezoneOffsetMinutes)) = 5
  /\ an.out.patterns.longestStreak = 3
  /\ an.out.stats.daysActive = 5
  /\ \E d \in LocalDays(an.posts, an.timezoneOffsetMinutes) :
       /\ {d, d + 1} \subseteq LocalDays(an.posts, an.timezoneOffsetMinutes)
       /\ \A e \in LocalDays(an.posts, an.timezoneOffsetMinutes) : e <= d + 1

\* C17: the time facets of a recap are those of the posts' time stamps seen
\* at the offset the caller gave: the peak hour is an hour, at that offset,
\* of one of the posts, and the days active are their dates at that offset.
C17_LocalizedWithOffset ==
  \A r \in Reqs :
    (req[r].recapWithVersion # NoRecap /\ req[r].fetchedPosts # {}) =>
      /\ req[r].recapWithVersion.patterns.peakHour \in
           {GetUTCHours(CreatedAt(t) + req[r].tzOffsetMinutes) : t \in req[r].fetchedPosts}
      /\ req[r].recapWithVersion.daysActive =
           Cardinality({(CreatedAt(t) + req[r].tzOffsetMinutes) \div 1440 :
                          t \in req[r].fetchedPosts})

(***************************************************************************)
(* Part IV: the fan sampler getTopFans with its edge walks getPostLikes    *)
(* and getPostReposts.  An actor is its did, a post its uri (its place in  *)
(* the post list) with the counts the upstream sent for it.                *)
(***************************************************************************)
\* most posts of the short post lists
MaxFanPosts == 2

\* for (let i = 0; i < 3; i++): the pages of one walk
MaxEdgePages == 3

\* .slice(0, 50): the posts sampled
SampleSize == 50

\* .slice(0, 5): the fans returned
TopFanCount == 5

\* profile.did
profileDid == "self"

\* a page of edges with its actors and whether it carries a cursor
OkPage(items, cursor) == [status |-> "ok", items |-> items, cursor |-> cursor]

\* a response with !response.ok
NotOkPage == [status |-> "notOk", items |-> <<>>, cursor |-> FALSE]

\* a fetch that throws
ThrownFetch == [status |-> "threw", items |-> <<>>, cursor |-> FALSE]

\* what the upstream answers to the requests of one walk, page by page
EdgeScripts ==
  << <<OkPage(<<"f1">>, FALSE)>>,
     <<NotOkPage>>,
     <<ThrownFetch>>,
     <<OkPage(<<"self", "f1">>, TRUE), OkPage(<<"f2">>, TRUE), OkPage(<<"f3">>, TRUE),
       OkPage(<<"f4">>, FALSE)>>,
     <<OkPage(<<"f1", "f2">>, TRUE), NotOkPage>>,
     <<OkPage(<<"f2">>, TRUE), OkPage(<<"f3">>, TRUE), ThrownFetch>>,
     <<OkPage(<<"f6", "f5", "f4", "f3", "f2", "f1">>, FALSE)>>,
     <<OkPage(<<>>, FALSE)>> >>

\* the upstreams differ in which post gets which answers
Shifts == 0..(Len(EdgeScripts) - 1)

\* the answers for the edges of the post uri
ScriptOf(shift, uri) == EdgeScripts[((uri + shift) % Len(EdgeScripts)) + 1]

\* the answer to the i-th request of a walk
ResponseAt(script, i) == IF i <= Len(script) THEN script[i] ELSE OkPage(<<>>, FALSE)

\* (a.post.likeCount || 0) + (a.post.repostCount || 0)
EdgeEngagement(post) == Count(post, "likeCount") + Count(post, "repostCount")

\* the place of the i-th item after a stable sort by falling keys
Rank(keys, i) ==
  1 + Cardinality({j \in 1..Len(keys) :
                     \/ keys[j] > keys[i]
                     \/ keys[j] = keys[i] /\ j < i})

\* [...seq].sort((a, b) => key(b) - key(a)), keys being the keys of the
\* items in their order: the sort is stable
SortedDescBy(seq, keys) ==
  CHOOSE sorted \in
    {[k \in 1..Len(seq) |-> seq[CHOOSE i \in 1..Len(seq) : rank[i] = k]] :
       rank \in {[i \in 1..Len(seq) |-> Rank(ks, i)] : ks \in {keys}}} : TRUE

\* seq.slice(0, n)
Slice(seq, n) == SubSeq(seq, 1, IF Len(seq) < n THEN Len(seq) ELSE n)

\* a walk not begun, and a walk with its first request out
IdleWalk == [i |-> 0, waiting |-> FALSE, all |-> <<>>, received |-> <<>>]
BeginWalk == [i |-> 1, waiting |-> TRUE, all |-> <<>>, received |-> <<>>]

\* a walk without its cap of pages
MoreEdgePagesUnbounded(requested) == TRUE

\* i < 3 after the i++ of the loop: another page may be asked for
MoreEdgePages(requested) == requested < MaxEdgePages

\* a walk that returns nothing once a fetch failed
AfterResponseDropsOnFailure(walk, response) ==
  IF response.status # "ok"
    THEN [i |-> walk.i, waiting |-> FALSE, all |-> <<>>,
          received |-> Append(walk.received, response)]
  ELSE [i |-> IF response.cursor /\ MoreEdgePages(walk.i) THEN walk.i + 1 ELSE walk.i,
        waiting |-> response.cursor /\ MoreEdgePages(walk.i),
        all |-> walk.all \o response.items,
        received |-> Append(walk.received, response)]

\* getPostLikes and getPostReposts from the answer to a request to the next
\* request or to the return: a throw and a response that is not ok return
\* what has been collected, a page is pushed and, if it has a cursor and the
\* loop goes on, the next page is asked for
AfterResponse(walk, response) ==
  IF response.status # "ok"
    THEN [i |-> walk.i, waiting |-> FALSE, all |-> walk.all,
          received |-> Append(walk.received, response)]
  ELSE [i |-> IF response.cursor /\ MoreEdgePages(walk.i) THEN walk.i + 1 ELSE walk.i,
        waiting |-> response.cursor /\ MoreEdgePages(walk.i),
        all |-> walk.all \o response.items,
        received |-> Append(walk.received, response)]

\* if (!fanCounts[did]) fanCounts[did] = {..., likes: 0, reposts: 0};
\* fanCounts[did][field]++, and continue for the profile's own did
Bump(fanCounts, did, field) ==
  IF did = profileDid THEN fanCounts
  ELSE IF \E n \in 1..Len(fanCounts) : fanCounts[n].did = did
    THEN [n \in 1..Len(fanCounts) |->
            IF fanCounts[n].did = did
              THEN [fanCounts[n] EXCEPT ![field] = @ + 1]
              ELSE fanCounts[n]]
  ELSE Append(fanCounts, [[did |-> did, likes |-> 0, reposts |-> 0] EXCEPT ![field] = 1])

\* for (const like of likes) { ... }, from the k-th edge on: the k-th edge
\* is tallied and from the counts `next` it leaves the others are
RECURSIVE TallyEdges(_, _, _, _)
TallyEdges(fanCounts, edges, k, field) ==
  IF k > Len(edges) THEN fanCounts
  ELSE CHOOSE out \in {TallyEdges(next, edges, k + 1, field) :
                         next \in {Bump(fanCounts, edges[k], field)}} : TRUE

\* a score that counts a repost as a like
ScoreUnweighted(f) == f.likes + f.reposts

\* score: fan.likes + fan.reposts * 2
Score(f) == f.likes + f.reposts * 2

\* Object.values(fanCounts).map(...).sort((a, b) => b.score - a.score)
\* .slice(0, 5): the keys are dids, kept in the order of their insertion
TopFans(fanCounts) ==
  Slice(SortedDescBy([n \in 1..Len(fanCounts) |->
                        [did |-> fanCounts[n].did, likes |-> fanCounts[n].likes,
                         reposts |-> fanCounts[n].reposts, score |-> Score(fanCounts[n])]],
                     [n \in 1..Len(fanCounts) |-> Score(fanCounts[n])]),
        TopFanCount)

\* the counts a post may carry, each possibly missing
FanPostShapes ==
  {[likeCount |-> 1, repostCount |-> 0], [likeCount |-> 0, repostCount |-> 2],
   [repostCount |-> 1], [likeCount |-> 2]}

\* the short post lists
RECURSIVE FanPostLists(_)
FanPostLists(n) ==
  IF n = 0 THEN {<<>>}
  ELSE FanPostLists(n - 1) \cup
       {Append(posts, [uri |-> Len(posts) + 1] @@ shape) :
          posts \in {p \in FanPostLists(n - 1) : Len(p) = n - 1}, shape \in FanPostShapes}

\* a long post list, its posts with rising and falling counts
LongFeed(n) ==
  [k \in 1..n |-> [uri |-> k, likeCount |-> k % 4, repostCount |-> k \div 20]]

\* getTopFans(session, posts, profileDid) before its first statement
FanStart(posts, likeShift, repostShift) ==
  [pc |-> "start", posts |-> posts, likeShift |-> likeShift, repostShift |-> repostShift,
   sortedPosts |-> <<>>, idx |-> 0, likeWalk |-> IdleWalk, repostWalk |-> IdleWalk,
   fanCounts |-> <<>>, outstanding |-> 0, walked |-> <<>>, topFans |-> <<>>]

\* the short lists meet every pair of answers, the long ones some
FanInputs ==
  {FanStart(posts, likeShift, repostShift) :
     posts \in FanPostLists(MaxFanPosts), likeShift \in Shifts, repostShift \in Shifts}
  \cup
  {FanStart(posts, likeShift, (likeShift + 5) % Len(EdgeScripts)) :
     posts \in {LongFeed(SampleSize), LongFeed(SampleSize + 1)}, likeShift \in Shifts}

InitFans ==
  /\ cache = {}
  /\ now = 0
  /\ req = [r \in Reqs |-> IdleReq]
  /\ mode = "rich"
  /\ served = <<>>
  /\ requestLog = <<>>
  /\ pc = "off"
  /\ fs = FetchStart
  /\ postsResult = NoResult
  /\ result = NoRecap
  /\ error = ""
  /\ an = NoResult
  /\ lt = NoResult
  /\ call = NoResult
  /\ fan \in FanInputs

\* getTopFans up to its first await: the posts are sorted and cut, and for
\* the first of them Promise.all calls both walks, each of which sends its
\* first request; with no posts the function returns
StartSample ==
  /\ fan.pc = "start"
  /\ \E sortedPosts \in
          {Slice(SortedDescBy(fan.posts,
                              [k \in 1..Len(fan.posts) |-> EdgeEngagement(fan.posts[k])]),
                 SampleSize)} :
       fan' = IF sortedPosts = <<>>
                THEN [fan EXCEPT !.pc = "done", !.topFans = TopFans(fan.fanCounts)]
                ELSE [fan EXCEPT !.pc = "walking", !.sortedPosts = sortedPosts, !.idx = 1,
                        !.likeWalk = BeginWalk, !.repostWalk = BeginWalk,
                        !.outstanding = 2]
  /\ UNCHANGED <<fetchVars, routeVars, an, lt, call>>

\* the answer to the request of getPostLikes arrives
LikesResponse ==
  /\ fan.pc = "walking"
  /\ fan.likeWalk.waiting
  /\ \E walk \in {AfterResponse(fan.likeWalk,
                    ResponseAt(ScriptOf(fan.likeShift, fan.sortedPosts[fan.idx].uri),
                               fan.likeWalk.i))} :
       fan' = [fan EXCEPT !.likeWalk = walk,
                 !.outstanding = IF walk.waiting THEN @ ELSE @ - 1]
  /\ UNCHANGED <<fetchVars, routeVars, an, lt, call>>

\* the answer to the request of getPostReposts arrives
RepostsResponse ==
  /\ fan.pc = "walking"
  /\ fan.repostWalk.waiting
  /\ \E walk \in {AfterResponse(fan.repostWalk,
                    ResponseAt(ScriptOf(fan.repostShift, fan.sortedPosts[fan.idx].uri),
                               fan.repostWalk.i))} :
       fan' = [fan EXCEPT !.repostWalk = walk,
                 !.outstanding = IF walk.waiting THEN @ ELSE @ - 1]
  /\ UNCHANGED <<fetchVars, routeVars, an, lt, call>>

\* Promise.all resolves: the likes and then the reposts of the post are
\* tallied, and the loop goes to the next post and calls both walks for it,
\* or after the last post the fans are scored, sorted and cut
TallyPost ==
  /\ fan.pc = "walking"
  /\ ~fan.likeWalk.waiting
  /\ ~fan.repostWalk.waiting
  /\ \E likesTallied \in {TallyEdges(fan.fanCounts, fan.likeWalk.all, 1, "likes")} :
     \E fanCounts \in {TallyEdges(likesTallied, fan.repostWalk.all, 1, "reposts")} :
       \E walked \in {Append(fan.walked,
                        [uri |-> fan.sortedPosts[fan.idx].uri,
                         likes |-> fan.likeWalk.all, reposts |-> fan.repostWalk.all,
                         likesReceived |-> fan.likeWalk.received,
                         repostsReceived |-> fan.repostWalk.received])} :
         fan' = IF fan.idx < Len(fan.sortedPosts)
                  THEN [fan EXCEPT !.fanCounts = fanCounts, !.walked = walked,
                          !.idx = @ + 1, !.likeWalk = BeginWalk, !.repostWalk = BeginWalk,
                          !.outstanding = 2]
                  ELSE [fan EXCEPT !.fanCounts = fanCounts, !.walked = walked,
                          !.pc = "done", !.likeWalk = IdleWalk, !.repostWalk = IdleWalk,
                          !.topFans = TopFans(fanCounts)]
  /\ UNCHANGED <<fetchVars, routeVars, an, lt, call>>

NextFans ==
  \/ StartSample
  \/ LikesResponse
  \/ RepostsResponse
  \/ TallyPost

SpecFans == InitFans /\ [][NextFans]_vars

\* every request is answered or throws, and a continuation that can run runs
FairSpecFans == SpecFans /\ WF_vars(NextFans)

(***************************************************************************)
(* The claims on the fan sampler                                           *)
(***************************************************************************)
\* getTopFans has returned
Sampled == fan.pc = "done"

\* the kinds of edges in the order in which a post's edges are tallied
EdgeKinds == <<"likes", "reposts">>

\* where the walks returned an edge of the actor: the place of the post in
\* the sample, the kind of edge and the place in the walk's list
EdgesOf(walked, did) ==
  {at \in UNION {{<<e, c, k>> : k \in 1..Len(walked[e][EdgeKinds[c]])} :
                   e \in 1..Len(walked), c \in 1..Len(EdgeKinds)} :
     walked[at[1]][EdgeKinds[at[2]]][at[3]] = did}

\* the number of the actor's edges of a kind over the sampled posts
EdgeCount(walked, did, c) == Cardinality({at \in EdgesOf(walked, did) : at[2] = c})

\* the actors met on the walks, the profile's own account apart
Encountered(walked) ==
  UNION {InSeq(walked[e].likes) \cup InSeq(walked[e].reposts) : e \in 1..Len(walked)}
    \ {profileDid}

\* the order in which getTopFans comes to the edges
EncounterBefore(a, b) ==
  \/ a[1] < b[1]
  \/ a[1] = b[1] /\ a[2] < b[2]
  \/ a[1] = b[1] /\ a[2] = b[2] /\ a[3] < b[3]

\* the first edge of the actor that getTopFans comes to
FirstEdge(walked, did) ==
  CHOOSE a \in EdgesOf(walked, did) :
    \A b \in EdgesOf(walked, did) \ {a} : EncounterBefore(a, b)

\* likes + 2 * reposts of the actor, counted on the edges themselves
EdgeScore(walked, did) == EdgeCount(walked, did, 1) + 2 * EdgeCount(walked, did, 2)

\* the actor f is to stand before the actor g
FanBefore(walked, f, g) ==
  \/ EdgeScore(walked, f) > EdgeScore(walked, g)
  \/ /\ EdgeScore(walked, f) = EdgeScore(walked, g)
     /\ EncounterBefore(FirstEdge(walked, f), FirstEdge(walked, g))

\* C13: getTopFans returns at most 5 fans (all of them if there are fewer),
\* none of them the profile's own account, each with its numbers of like
\* and repost edges over the sampled posts and score = likes + 2 * reposts,
\* ordered by falling score and, at equal score, by first encounter; the
\* fans left out would stand behind every fan returned.
C13_TopFans ==
  Sampled =>
    LET top == fan.topFans
        fans == Encountered(fan.walked)
    IN /\ Len(top) <= 5
       /\ Len(top) = IF Cardinality(fans) < 5 THEN Cardinality(fans) ELSE 5
       /\ \A n \in 1..Len(top) :
            /\ top[n].did # profileDid
            /\ top[n].did \in fans
            /\ top[n].likes = EdgeCount(fan.walked, top[n].did, 1)
            /\ top[n].reposts = EdgeCount(fan.walked, top[n].did, 2)
            /\ top[n].score = top[n].likes + 2 * top[n].reposts
       /\ \A n, m \in 1..Len(top) :
            n < m => FanBefore(fan.walked, top[n].did, top[m].did)
       /\ \A did \in fans \ {top[n].did : n \in 1..Len(top)} :
            \A n \in 1..Len(top) : FanBefore(fan.walked, top[n].did, did)

\* more than five actors were met, the own account among the likers, two of
\* the fans returned are level, and one owes its place to the double weight
\* of its reposts
C13_Witness ==
  /\ Sampled
  /\ Len(fan.topFans) = 5
  /\ Cardinality(Encountered(fan.walked)) > 5
  /\ \E e \in 1..Len(fan.walked) : profileDid \in InSeq(fan.walked[e].likes)
  /\ \E n \in 1..4 : fan.topFans[n].score = fan.topFans[n + 1].score
  /\ \E n \in 1..4 :
       /\ fan.topFans[n].reposts > 0
       /\ fan.topFans[n].score > fan.topFans[n + 1].score
       /\ fan.topFans[n].likes + fan.topFans[n].reposts
            <= fan.topFans[n + 1].likes + fan.topFans[n + 1].reposts

\* a walk met a response that was not ok or a fetch that threw
Failed(received) == \E k \in 1..Len(received) : received[k].status # "ok"

\* the actors on the pages received
RECURSIVE ItemsOfPages(_)
ItemsOfPages(received) ==
  IF received = <<>> THEN <<>>
  ELSE ItemsOfPages(SubSeq(received, 1, Len(received) - 1))
         \o (IF received[Len(received)].status = "ok"
               THEN received[Len(received)].items ELSE <<>>)

Waiting == {w \in {"likeWalk", "repostWalk"} : fan[w].waiting}

\* C15: at no time are more than 2 edge requests out; the sample is the (at
\* most) 50 posts of most likeCount + repostCount; a walk asks for at most
\* 3 pages, one after the other; the walks of the next post begin only
\* when both walks of the current post have returned.
C15_TwoOutstanding ==
  /\ [](/\ fan.outstanding <= 2
        /\ fan.outstanding = Cardinality(Waiting)
        /\ fan.likeWalk.i <= 3 /\ Len(fan.likeWalk.received) <= 3
        /\ fan.repostWalk.i <= 3 /\ Len(fan.repostWalk.received) <= 3
        /\ \A w \in {"likeWalk", "repostWalk"} :
             Len(fan[w].received) = IF fan[w].waiting THEN fan[w].i - 1 ELSE fan[w].i
        /\ fan.pc # "start" =>
             LET sample == {fan.sortedPosts[k].uri : k \in 1..Len(fan.sortedPosts)} IN
             /\ Len(fan.sortedPosts) = IF Len(fan.posts) < 50 THEN Len(fan.posts) ELSE 50
             /\ Cardinality(sample) = Len(fan.sortedPosts)
             /\ \A u \in (1..Len(fan.posts)) \ sample : \A s \in sample :
                  EdgeEngagement(fan.posts[u]) <= EdgeEngagement(fan.posts[s]))
  /\ [][fan'.idx # fan.idx =>
          /\ Waiting = {}
          /\ fan'.idx = fan.idx + 1
          /\ Len(fan'.walked) = fan.idx]_vars

\* of 51 posts 50 are sampled; for a post after the first both walks have
\* a request out, the like walk its third
C15_Witness ==
  /\ Len(fan.posts) > 50
  /\ Len(fan.sortedPosts) = 50
  /\ fan.idx >= 2
  /\ fan.outstanding = 2
  /\ fan.likeWalk.i = 3
  /\ fan.repostWalk.i = 1

(***************************************************************************)
(* Part V: the remaining facets of analyzeRecap                            *)
(***************************************************************************)
\* how often v stands in the sequence `values`, and where it stands first
TimesIn(values, v) == Cardinality({k \in 1..Len(values) : values[k] = v})
FirstPlace(values, v) ==
  CHOOSE k \in 1..Len(values) : values[k] = v /\ \A j \in 1..(k - 1) : values[j] # v

\* v is a value of `values` that no other outnumbers, and of those the one
\* met first in the order of the sequence
FirstMetOfMost(values, v) ==
  /\ \E k \in 1..Len(values) : values[k] = v
  /\ \A k \in 1..Len(values) :
       /\ TimesIn(values, values[k]) <= TimesIn(values, v)
       /\ values[k] # v /\ TimesIn(values, values[k]) = TimesIn(values, v)
            => FirstPlace(values, v) < FirstPlace(values, values[k])

\* the local time components of the posts under analysis, in input order
LocalOfPosts ==
  [k \in 1..Len(an.posts) |->
     GetLocalTimeComponents(an.posts[k].createdAt, an.timezoneOffsetMinutes)]

\* C24: mostActiveMonth, mostActiveDay and peakHour are each a value with
\* the most posts of its grouping, and of several such values the one met
\* first in the input order of the posts, for the peak hour too
C24_FirstEncounteredWins ==
  Analyzed /\ an.posts # <<>> =>
    /\ FirstMetOfMost([k \in 1..Len(an.posts) |-> MonthNames[LocalOfPosts[k].month + 1]],
                      an.out.patterns.mostActiveMonth)
    /\ FirstMetOfMost([k \in 1..Len(an.posts) |-> DayNames[LocalOfPosts[k].day + 1]],
                      an.out.patterns.mostActiveDay)
    /\ FirstMetOfMost([k \in 1..Len(an.posts) |-> LocalOfPosts[k].hour],
                      an.out.patterns.peakHour)

\* the part of C24 on months and week days alone
MonthAndDayFirstEncountered ==
  Analyzed /\ an.posts # <<>> =>
    /\ FirstMetOfMost([k \in 1..Len(an.posts) |-> MonthNames[LocalOfPosts[k].month + 1]],
                      an.out.patterns.mostActiveMonth)
    /\ FirstMetOfMost([k \in 1..Len(an.posts) |-> DayNames[LocalOfPosts[k].day + 1]],
                      an.out.patterns.mostActiveDay)

\* C30: in every recap, for any post set, the empty one included, the
\* longest streak is at most the number of days active, which is at most
\* the number of posts
C30_StreakWithinDays ==
  Analyzed =>
    /\ an.out.patterns.longestStreak <= an.out.stats.daysActive
    /\ an.out.stats.daysActive <= an.out.stats.totalPosts

\* the same for the post sets that are not empty
StreakWithinDaysOfPosts ==
  Analyzed /\ an.posts # <<>> =>
    /\ an.out.patterns.longestStreak <= an.out.stats.daysActive
    /\ an.out.stats.daysActive <= an.out.stats.totalPosts

(***************************************************************************)
(* The functions of the routes and of analyzeRecap, each called on inputs  *)
(* of its own.  `call` holds the function's name, its arguments, and its   *)
(* return value once it has returned.                                      *)
(***************************************************************************)
\* longest handle of a request body that has one
MaxHandleLen == 3

\* the characters of a handle: white space, the at sign, a letter in both cases
HandleChars == {" ", "@", "a", "A"}

NormalizeCalls ==
  [fn : {"normalize"}, handle : SeqsUpTo(HandleChars, MaxHandleLen) \ {<<>>},
   done : {FALSE}, out : {NoResult}]

\* handle = handle.trim().replace(/^@/, "").toLowerCase()
NormalizeHandle ==
  /\ call.fn = "normalize"
  /\ ~call.done
  /\ call' = [call EXCEPT !.done = TRUE, !.out = Normalize(call.handle)]
  /\ UNCHANGED <<fetchVars, routeVars, fan, an, lt>>

\* C29: the normalization of a handle is idempotent: for every input
\* string, normalizing the normalized handle again yields the same string
C29_NormalizeIdempotent ==
  call.fn = "normalize" /\ call.done => Normalize(call.out) = call.out

\* the same for the handles that begin, once trimmed, with at most one at
\* sign that a handle character follows
NormalizeIdempotentOnPlainHandles ==
  call.fn = "normalize" /\ call.done
    /\ (LET trimmed == Trim(call.handle)
        IN Len(trimmed) < 2 \/ trimmed[1] # "@" \/ trimmed[2] \notin {"@", " "})
    => Normalize(call.out) = call.out

(***************************************************************************)
(* analyzePosterType.  No step of it looks at the order of the posts, so   *)
(* `posts` is given as a bag of post shapes: for each shape the number of  *)
(* posts that have it.  The quotients it compares with 0.4, 0.3, 0.7 and   *)
(* 0.2 are compared exactly, as fractions.                                 *)
(***************************************************************************)
\* the sum of the numbers counts[key] over the keys `keys`
RECURSIVE SumOver(_, _)
SumOver(counts, keys) ==
  IF keys = {} THEN 0
  ELSE LET key == CHOOSE x \in keys : TRUE
       IN counts[key] + SumOver(counts, keys \ {key})

\* posts.filter((item) => item.post.record?.reply).length
ReplyPosts(posts) == SumOver(posts, {shape \in DOMAIN posts : shape.reply})

\* posts.filter((item) => item.post.record?.embed?.$type ===
\* 'app.bsky.embed.record').length
RepostPosts(posts) ==
  SumOver(posts, {shape \in DOMAIN posts : shape.embed = "app.bsky.embed.record"})

\* nightOwlPosts: h >= 22 || h < 2
NightOwlPosts(hourCounts) == SumOver(hourCounts, {h \in DOMAIN hourCounts : h >= 22 \/ h < 2})

\* earlyBirdPosts: h >= 5 && h < 9
EarlyBirdPosts(hourCounts) == SumOver(hourCounts, {h \in DOMAIN hourCounts : h >= 5 /\ h < 9})

\* totalTimePosts
TotalTimePosts(hourCounts) == SumOver(hourCounts, DOMAIN hourCounts)

\* the cascade with the night owl asked before quality over quantity
PosterTypeNightFirst(c) ==
  IF c.longestStreak > 200 THEN "Streak Master"
  ELSE IF c.nightOwlRatio[1] * 10 > 4 * c.nightOwlRatio[2] THEN "Night Owl"
  ELSE IF c.totalPosts < 100 /\ c.avgEngagement > 30 THEN "Quality Over Quantity"
  ELSE IF c.earlyBirdRatio[1] * 10 > 4 * c.earlyBirdRatio[2] THEN "Early Bird"
  ELSE IF c.replyRatio[1] * 10 > 4 * c.replyRatio[2] THEN "Conversationalist"
  ELSE IF c.repostRatio[1] * 10 > 3 * c.repostRatio[2] THEN "Curator"
  ELSE IF c.avgEngagement > 50 /\ c.totalPosts > 50 THEN "Thought Leader"
  ELSE IF /\ c.originalPostRatio[1] * 10 > 7 * c.originalPostRatio[2]
          /\ c.replyRatio[1] * 10 < 2 * c.replyRatio[2] THEN "Creator"
  ELSE IF c.totalPosts > 1000 THEN "Power User"
  ELSE "Balanced"

\* the returns of analyzePosterType after its first, in their order; a
\* ratio is the pair of its numerator and its denominator
PosterType(c) ==
  IF c.longestStreak > 200 THEN "Streak Master"
  ELSE IF c.totalPosts < 100 /\ c.avgEngagement > 30 THEN "Quality Over Quantity"
  ELSE IF c.nightOwlRatio[1] * 10 > 4 * c.nightOwlRatio[2] THEN "Night Owl"
  ELSE IF c.earlyBirdRatio[1] * 10 > 4 * c.earlyBirdRatio[2] THEN "Early Bird"
  ELSE IF c.replyRatio[1] * 10 > 4 * c.replyRatio[2] THEN "Conversationalist"
  ELSE IF c.repostRatio[1] * 10 > 3 * c.repostRatio[2] THEN "Curator"
  ELSE IF c.avgEngagement > 50 /\ c.totalPosts > 50 THEN "Thought Leader"
  ELSE IF /\ c.originalPostRatio[1] * 10 > 7 * c.originalPostRatio[2]
          /\ c.replyRatio[1] * 10 < 2 * c.replyRatio[2] THEN "Creator"
  ELSE IF c.totalPosts > 1000 THEN "Power User"
  ELSE "Balanced"

\* analyzePosterType(posts, totalPosts, totalReplies, totalReposts,
\* avgEngagement, longestStreak, hourCounts): the type of the object it
\* returns; totalReplies and totalReposts are not read
AnalyzePosterType(posts, totalPosts, avgEngagement, longestStreak, hourCounts) ==
  IF totalPosts = 0 THEN [type |-> "Balanced"]
  ELSE
    LET replyPosts == ReplyPosts(posts)
        repostPosts == RepostPosts(posts)
        nightOwlPosts == NightOwlPosts(hourCounts)
        earlyBirdPosts == EarlyBirdPosts(hourCounts)
        totalTimePosts == TotalTimePosts(hourCounts)
    IN [type |->
          PosterType(
            [totalPosts |-> totalPosts,
             avgEngagement |-> avgEngagement,
             longestStreak |-> longestStreak,
             replyRatio |-> <<replyPosts, totalPosts>>,
             repostRatio |-> <<repostPosts, totalPosts>>,
             originalPostRatio |-> <<totalPosts - replyPosts - repostPosts, totalPosts>>,
             nightOwlRatio |->
               IF totalTimePosts > 0 THEN <<nightOwlPosts, totalTimePosts>> ELSE <<0, 1>>,
             earlyBirdRatio |->
               IF totalTimePosts > 0 THEN <<earlyBirdPosts, totalTimePosts>> ELSE <<0, 1>>])]

\* the post shapes of a bag: replies or not, with a quoted record, with
\* images or with nothing embedded
ReplyShape == [reply |-> TRUE, embed |-> "none"]
QuoteShape == [reply |-> FALSE, embed |-> "app.bsky.embed.record"]
QuoteReplyShape == [reply |-> TRUE, embed |-> "app.bsky.embed.record"]
PlainShape == [reply |-> FALSE, embed |-> "app.bsky.embed.images"]

\* the function `counts` without the arguments it maps to zero
Positive(counts) == [x \in {y \in DOMAIN counts : counts[y] > 0} |-> counts[x]]

\* the bag of `total` posts of which `replies` tenths are replies, `quotes`
\* tenths quote a record and `both` tenths do both
PostBag(total, replies, quotes, both) ==
  LET tenth == total \div 10
  IN Positive([shape \in {ReplyShape, QuoteShape, QuoteReplyShape, PlainShape} |->
                 CASE shape = ReplyShape -> replies * tenth
                   [] shape = QuoteShape -> quotes * tenth
                   [] shape = QuoteReplyShape -> both * tenth
                   [] OTHER -> total - (replies + quotes + both) * tenth])

\* hourCounts of `total` posts: half of them in the hour h and half at noon,
\* half late and half early, or four tenths in the night
HourProfiles(total) ==
  {Positive([x \in {h, 12} |-> IF h = 12 THEN total ELSE total \div 2]) :
     h \in {21, 22, 23, 0, 1, 2, 4, 5, 8, 9, 12}}
    \cup {Positive([x \in {23, 6} |-> total \div 2])}
    \cup {Positive([x \in {1, 12} |-> IF x = 1 THEN 4 * (total \div 10) ELSE 6 * (total \div 10)])}

\* the numbers of posts of a year: none, few, and around the thresholds
PosterTotals == {0, 10, 60, 90, 100, 1000, 1010}

PosterCalls ==
  UNION
    {[fn : {"analyzePosterType"},
      posts : {PostBag(total, replies, quotes, both) :
                 replies \in {0, 1, 2, 4, 5}, quotes \in {0, 3, 4}, both \in {0, 1}},
      totalPosts : {total},
      avgEngagement : {0, 30, 31, 50, 51},
      longestStreak : {streak \in {1, 200, 201} : streak = 1 \/ streak <= total},
      hourCounts : HourProfiles(total),
      done : {FALSE}, out : {NoResult}] : total \in PosterTotals}

\* analyzePosterType runs
ClassifyPoster ==
  /\ call.fn = "analyzePosterType"
  /\ ~call.done
  /\ call' = [call EXCEPT !.done = TRUE,
                !.out = AnalyzePosterType(call.posts, call.totalPosts, call.avgEngagement,
                                          call.longestStreak, call.hourCounts)]
  /\ UNCHANGED <<fetchVars, routeVars, fan, an, lt>>

\* part / whole > num / den, for a whole that is not zero
ShareAbove(part, whole, num, den) == part * den > num * whole
ShareBelow(part, whole, num, den) == part * den < num * whole

\* the rules of the poster type in the order of their priority, each with
\* the truth of its predicate on the call at hand
PosterRules ==
  LET total == call.totalPosts
      replies == SumOver(call.posts, {shape \in DOMAIN call.posts : shape.reply})
      quotes == SumOver(call.posts,
                  {shape \in DOMAIN call.posts : shape.embed = "app.bsky.embed.record"})
      timed == SumOver(call.hourCounts, DOMAIN call.hourCounts)
      night == SumOver(call.hourCounts, DOMAIN call.hourCounts \cap {22, 23, 0, 1})
      early == SumOver(call.hourCounts, DOMAIN call.hourCounts \cap (5..8))
  IN <<[type |-> "Streak Master", holds |-> call.longestStreak > 200],
       [type |-> "Quality Over Quantity", holds |-> total < 100 /\ call.avgEngagement > 30],
       [type |-> "Night Owl", holds |-> ShareAbove(night, timed, 4, 10)],
       [type |-> "Early Bird", holds |-> ShareAbove(early, timed, 4, 10)],
       [type |-> "Conversationalist", holds |-> ShareAbove(replies, total, 4, 10)],
       [type |-> "Curator", holds |-> ShareAbove(quotes, total, 3, 10)],
       [type |-> "Thought Leader", holds |-> call.avgEngagement > 50 /\ total > 50],
       [type |-> "Creator",
        holds |-> /\ ShareAbove(total - replies - quotes, total, 7, 10)
                  /\ ShareBelow(replies, total, 2, 10)],
       [type |-> "Power User", holds |-> total > 1000]>>

Classified == call.fn = "analyzePosterType" /\ call.done

\* C22: analyzePosterType returns the type of the first rule, in the order
\* Streak Master, Quality Over Quantity, Night Owl, Early Bird,
\* Conversationalist, Curator, Thought Leader, Creator, Power User, whose
\* predicate holds, whatever later rules hold too, and Balanced if none
\* holds or there are no posts
C22_FirstMatchWins ==
  Classified =>
    IF call.totalPosts = 0 THEN call.out.type = "Balanced"
    ELSE /\ \A k \in 1..Len(PosterRules) :
              PosterRules[k].holds /\ (\A j \in 1..(k - 1) : ~PosterRules[j].holds)
                => call.out.type = PosterRules[k].type
         /\ (\A k \in 1..Len(PosterRules) : ~PosterRules[k].holds)
              => call.out.type = "Balanced"

\* a call on which quality over quantity, the night owl, the
\* conversationalist and the curator all hold, and the first of them is
\* returned
C22_Witness ==
  /\ Classified
  /\ call.totalPosts > 0
  /\ ~PosterRules[1].holds
  /\ PosterRules[2].holds /\ PosterRules[3].holds
  /\ PosterRules[5].holds /\ PosterRules[6].holds
  /\ call.out.type = "Quality Over Quantity"

(***************************************************************************)
(* findMilestones.  A post carries its uri and createdAt, and the counts   *)
(* the upstream sent.                                                      *)
(***************************************************************************)
\* the posts of `posts` created at the instants `instants`, instant after
\* instant, those of one instant in the order they have in `posts`
RECURSIVE ByInstant(_, _)
ByInstant(posts, instants) ==
  IF instants = {} THEN <<>>
  ELSE LET earliest == CHOOSE t \in instants : \A u \in instants : t <= u
           AtEarliest(post) == post.createdAt = earliest
       IN SelectSeq(posts, AtEarliest) \o ByInstant(posts, instants \ {earliest})

\* [...posts].sort((a, b) => dateA - dateB): oldest first, posts of one
\* instant in their order in `posts`
SortedByDate(posts) ==
  ByInstant(posts, {posts[k].createdAt : k \in 1..Len(posts)})

\* const thresholds = [100, 500, 1000, 2500, 5000, 10000]
thresholds == <<100, 500, 1000, 2500, 5000, 10000>>

\* the test that leaves out a post set of exactly the threshold
ReachesThresholdStrict(totalPosts, threshold, sortedPosts) ==
  totalPosts > threshold /\ threshold - 1 < Len(sortedPosts)

\* if (totalPosts >= threshold) { const postIndex = threshold - 1;
\* if (postIndex < sortedPosts.length) ... }
ReachesThreshold(totalPosts, threshold, sortedPosts) ==
  totalPosts >= threshold /\ threshold - 1 < Len(sortedPosts)

\* the object pushed for the post at place `postNumber` of sortedPosts
Milestone(postNumber, post) ==
  [postNumber |-> postNumber,
   likes |-> Count(post, "likeCount"),
   reposts |-> Count(post, "repostCount"),
   replies |-> Count(post, "replyCount"),
   uri |-> post.uri,
   createdAt |-> post.createdAt]

\* thresholds.forEach(...): the milestones pushed for the thresholds
ThresholdMilestones(totalPosts, sortedPosts) ==
  LET Reached(threshold) == ReachesThreshold(totalPosts, threshold, sortedPosts)
      reached == SelectSeq(thresholds, Reached)
  IN [k \in 1..Len(reached) |-> Milestone(reached[k], sortedPosts[reached[k]])]

\* findMilestones(posts, totalPosts): the thresholds' milestones, then the
\* first post's, then milestones.sort((a, b) => a.postNumber - b.postNumber)
FindMilestones(posts, totalPosts) ==
  CHOOSE out \in
    {[milestones |-> SortedDescBy(pushed, [k \in 1..Len(pushed) |-> -pushed[k].postNumber])] :
       pushed \in
         {ThresholdMilestones(totalPosts, sortedPosts)
            \o (IF Len(sortedPosts) > 0 THEN <<Milestone(1, sortedPosts[1])>> ELSE <<>>) :
            sortedPosts \in {SortedByDate(posts)}}} : TRUE

\* a feed of n posts, the newest first, `span` of them at each instant
FeedOf(n, span) == [k \in 1..n |-> [uri |-> k, createdAt |-> (n - k) \div span]]

\* n posts in no order of time, over eleven instants
Shuffled(n) == [k \in 1..n |-> [uri |-> k, createdAt |-> (k * 7) % 11]]

\* the sizes of the large post sets: at, below and above the thresholds
MilestoneSizes ==
  {99, 100, 101, 150, 499, 500, 1000, 2499, 2500, 5000, 9999, 10000, 10001}

\* the instants of the posts of a small post set
MaxMilestonePosts == 3

MilestonePosts ==
  {[k \in 1..Len(times) |-> [uri |-> k, createdAt |-> times[k]]] :
     times \in SeqsUpTo(0..2, MaxMilestonePosts)}
    \cup {FeedOf(n, 1 + n \div 10) : n \in MilestoneSizes}
    \cup {Shuffled(n) : n \in MilestoneSizes}

MilestoneCalls ==
  {[fn |-> "findMilestones", posts |-> posts, totalPosts |-> Len(posts),
    done |-> FALSE, out |-> NoResult] : posts \in MilestonePosts}

\* findMilestones runs
FindMilestonesOfPosts ==
  /\ call.fn = "findMilestones"
  /\ ~call.done
  /\ call' = [call EXCEPT !.done = TRUE, !.out = FindMilestones(call.posts, call.totalPosts)]
  /\ UNCHANGED <<fetchVars, routeVars, fan, an, lt>>

MilestonesFound == call.fn = "findMilestones" /\ call.done

\* the place, counted from 1, of the k-th post of `posts` in ascending
\* order of time, posts of one instant in input order
ChronologicalPlace(posts, k) ==
  1 + Cardinality({j \in 1..Len(posts) :
                     \/ posts[j].createdAt < posts[k].createdAt
                     \/ posts[j].createdAt = posts[k].createdAt /\ j < k})

\* C23: for a post set of n > 0 posts findMilestones returns one milestone
\* numbered 1 and one for each threshold T of 100, 500, 1000, 2500, 5000,
\* 10000 with T <= n and no other, each with the T-th post in ascending
\* order of time, the list in rising post numbers without duplicates (so
\* 150 posts give the milestones 1 and 100 only)
C23_Milestones ==
  MilestonesFound /\ call.posts # <<>> =>
    LET milestones == call.out.milestones
        n == Len(call.posts)
    IN /\ {milestones[i].postNumber : i \in 1..Len(milestones)}
            = {1} \cup {T \in {100, 500, 1000, 2500, 5000, 10000} : T <= n}
       /\ \A i \in 1..(Len(milestones) - 1) :
            milestones[i].postNumber < milestones[i + 1].postNumber
       /\ \A i \in 1..Len(milestones) :
            /\ milestones[i].uri \in 1..n
            /\ call.posts[milestones[i].uri].uri = milestones[i].uri
            /\ ChronologicalPlace(call.posts, milestones[i].uri) = milestones[i].postNumber
       /\ n = 150 =>
            [i \in 1..Len(milestones) |-> milestones[i].postNumber] = <<1, 100>>

\* 150 posts that came newest first, sixteen to an instant: milestone 1 is
\* the first in the feed of the sixteen oldest, milestone 100 the fourth in
\* the feed of the seventh instant
C23_Witness ==
  /\ MilestonesFound
  /\ Len(call.posts) = 150
  /\ call.posts[1].createdAt > call.posts[150].createdAt
  /\ Len(call.out.milestones) = 2
  /\ call.out.milestones[1].postNumber = 1
  /\ call.out.milestones[1].uri = 135
  /\ call.out.milestones[2].postNumber = 100
  /\ call.out.milestones[2].uri = 42

(***************************************************************************)
(* analyzeEngagementTimeline                                               *)
(***************************************************************************)
\* (likeCount || 0) + (repostCount || 0) + (replyCount || 0)
TimelineEngagement(post) ==
  Count(post, "likeCount") + Count(post, "repostCount") + Count(post, "replyCount")

\* the keys of an object filled in the order of `keys`, as Object.entries
\* lists them when they are names: in the order of their first insertion
RECURSIVE InsertionOrder(_)
InsertionOrder(keys) ==
  IF keys = <<>> THEN <<>>
  ELSE LET front == InsertionOrder(SubSeq(keys, 1, Len(keys) - 1))
           last == keys[Len(keys)]
       IN IF \E k \in 1..Len(front) : front[k] = last THEN front ELSE Append(front, last)

\* the keys of an object as Object.entries lists them when they are whole
\* numbers: in rising order
RECURSIVE RisingOrder(_)
RisingOrder(numbers) ==
  IF numbers = {} THEN <<>>
  ELSE LET least == CHOOSE n \in numbers : \A m \in numbers : n <= m
       IN <<least>> \o RisingOrder(numbers \ {least})

\* monthEngagement[key], dayEngagement[key], hourEngagement[key] after the
\* pass over the posts
Bucket(keys, engagements, key) ==
  [key |-> key,
   total |-> SumOver(engagements, {k \in 1..Len(keys) : keys[k] = key}),
   count |-> Cardinality({k \in 1..Len(keys) : keys[k] = key})]

\* Object.entries(...).forEach(([key, data]) => { const avg = data.total /
\* data.count; if (avg > bestAvg) { bestAvg = avg; best = key } }), from
\* the i-th entry on; the averages are compared as fractions
RECURSIVE BestScan(_, _, _)
BestScan(entries, i, best) ==
  IF i > Len(entries) THEN best
  ELSE IF entries[i].total * best.count > best.total * entries[i].count
    THEN BestScan(entries, i + 1, entries[i])
    ELSE BestScan(entries, i + 1, best)

\* the best bucket of the posts keyed by `keys`, its keys listed in the
\* order `order`; `unknown` is the key the scan starts with
BestBucket(keys, order, engagements, unknown) ==
  CHOOSE best \in
    {BestScan(entries, 1, [key |-> unknown, total |-> 0, count |-> 1]) :
       entries \in {[i \in 1..Len(order) |-> Bucket(keys, engagements, order[i])]}} : TRUE

\* the pass over the posts: each post's local month, week day and hour
\* and its engagement
TimelineKeys(posts, timezoneOffsetMinutes) ==
  CHOOSE keys \in
    {[k \in 1..Len(posts) |->
        [month |-> MonthNames[local[k].month + 1],
         day |-> DayNames[local[k].day + 1],
         hour |-> local[k].hour,
         engagement |-> TimelineEngagement(posts[k])]] :
       local \in {[k \in 1..Len(posts) |->
                     GetLocalTimeComponents(posts[k].createdAt, timezoneOffsetMinutes)]}} : TRUE

\* what analyzeEngagementTimeline returns for the buckets found
TimelineOf(keys) ==
  LET months == [k \in 1..Len(keys) |-> keys[k].month]
      days == [k \in 1..Len(keys) |-> keys[k].day]
      hours == [k \in 1..Len(keys) |-> keys[k].hour]
      engagements == [k \in 1..Len(keys) |-> keys[k].engagement]
  IN CHOOSE out \in
       {[bestMonth |-> month.key,
         bestDay |-> day.key,
         bestHour |-> hour.key,
         bestMonthAvg |-> MathRound(month.total, month.count),
         bestDayAvg |-> MathRound(day.total, day.count),
         bestHourAvg |-> MathRound(hour.total, hour.count)] :
          month \in {BestBucket(months, InsertionOrder(months), engagements, "Unknown")},
          day \in {BestBucket(days, InsertionOrder(days), engagements, "Unknown")},
          hour \in {BestBucket(hours, RisingOrder({hours[k] : k \in 1..Len(hours)}),
                               engagements, 12)}} : TRUE

\* analyzeEngagementTimeline(posts, timezoneOffsetMinutes)
AnalyzeEngagementTimeline(posts, timezoneOffsetMinutes) ==
  CHOOSE out \in
    {TimelineOf(keys) : keys \in {TimelineKeys(posts, timezoneOffsetMinutes)}} : TRUE

\* most posts of a post set given to analyzeEngagementTimeline
MaxTimelinePosts == 2

\* posts around midnight of a leap day, at noon and at the year's end
TimelinePosts ==
  [createdAt : {DateUTC(2024, 1, 29, 0, 30), DateUTC(2024, 2, 2, 12, 0),
                DateUTC(2024, 11, 31, 23, 30)},
   likeCount : {0, 1, 3},
   replyCount : {0, 1}]

TimelineCalls ==
  [fn : {"analyzeEngagementTimeline"},
   posts : SeqsUpTo(TimelinePosts, MaxTimelinePosts),
   timezoneOffsetMinutes : {-60, 0},
   done : {FALSE}, out : {NoResult}]

\* analyzeEngagementTimeline runs
EngagementTimeline ==
  /\ call.fn = "analyzeEngagementTimeline"
  /\ ~call.done
  /\ call' = [call EXCEPT !.done = TRUE,
                !.out = AnalyzeEngagementTimeline(call.posts, call.timezoneOffsetMinutes)]
  /\ UNCHANGED <<fetchVars, routeVars, fan, an, lt>>

TimelineDone == call.fn = "analyzeEngagementTimeline" /\ call.done

\* the local time components of the posts of the call, in input order
LocalOfCall ==
  [k \in 1..Len(call.posts) |->
     GetLocalTimeComponents(call.posts[k].createdAt, call.timezoneOffsetMinutes)]

\* likes + reposts + replies of the posts of the call whose key is `key`,
\* and their number
EngagementIn(keys, key) ==
  SumOver([k \in 1..Len(call.posts) |-> ValueOf(call.posts[k], "likeCount")
             + ValueOf(call.posts[k], "repostCount")
             + ValueOf(call.posts[k], "replyCount")],
          {k \in 1..Len(keys) : keys[k] = key})
PostsIn(keys, key) == Cardinality({k \in 1..Len(keys) : keys[k] = key})

\* the bucket `best` of the grouping `keys` holds a post, no bucket has a
\* higher average, and `avg` is its average rounded
IsBestBucket(keys, best, avg) ==
  /\ PostsIn(keys, best) > 0
  /\ \A k \in 1..Len(keys) :
       EngagementIn(keys, keys[k]) * PostsIn(keys, best)
         <= EngagementIn(keys, best) * PostsIn(keys, keys[k])
  /\ 2 * avg * PostsIn(keys, best) <= 2 * EngagementIn(keys, best) + PostsIn(keys, best)
  /\ 2 * EngagementIn(keys, best) + PostsIn(keys, best) < 2 * (avg + 1) * PostsIn(keys, best)

BestBucketsReported ==
  /\ IsBestBucket([k \in 1..Len(call.posts) |-> MonthNames[LocalOfCall[k].month + 1]],
                  call.out.bestMonth, call.out.bestMonthAvg)
  /\ IsBestBucket([k \in 1..Len(call.posts) |-> DayNames[LocalOfCall[k].day + 1]],
                  call.out.bestDay, call.out.bestDayAvg)
  /\ IsBestBucket([k \in 1..Len(call.posts) |-> LocalOfCall[k].hour],
                  call.out.bestHour, call.out.bestHourAvg)

\* C25: for any post set that is not empty, analyzeEngagementTimeline
\* reports for months, week days and hours each a bucket that holds at
\* least one post and whose average of likes + reposts + replies is the
\* highest of its grouping, with that average rounded, also when every
\* post has no engagement at all
C25_BestBuckets ==
  TimelineDone /\ call.posts # <<>> => BestBucketsReported

\* the same for the post sets in which some post has engagement
BestBucketsWhenEngaged ==
  TimelineDone /\ (\E k \in 1..Len(call.posts) : TimelineEngagement(call.posts[k]) > 0)
    => BestBucketsReported

(***************************************************************************)
(* The analyzers of text, media, links and threads.  Of a post's text the  *)
(* model keeps what the analyzers draw from it: `words`, the words left by *)
(* the cleaning and the filters of analyzeTopics, `emojis`, the emoji      *)
(* sequences analyzeEmojis counts, `domains`, the host names analyzeLinks  *)
(* counts, and for analyzePostingAge the text's length and its numbers of  *)
(* hashtags and of emoji code points.                                      *)
(***************************************************************************)
\* the values of the field `field` of the posts, one post after another
RECURSIVE Flatten(_, _)
Flatten(posts, field) ==
  IF posts = <<>> THEN <<>>
  ELSE Flatten(SubSeq(posts, 1, Len(posts) - 1), field) \o posts[Len(posts)][field]

\* the pairs of neighbouring words of the posts
RECURSIVE Bigrams(_)
Bigrams(posts) ==
  IF posts = <<>> THEN <<>>
  ELSE LET words == posts[Len(posts)].words
       IN Bigrams(SubSeq(posts, 1, Len(posts) - 1))
            \o [i \in 1..(Len(words) - 1) |-> <<words[i], words[i + 1]>>]

\* Object.entries(counts) of the counts of `keys`, the keys being names
CountEntries(keys) ==
  CHOOSE entries \in
    {[i \in 1..Len(order) |-> [key |-> order[i], count |-> NameCount(keys, order[i])]] :
       order \in {InsertionOrder(keys)}} : TRUE

\* .filter(([_, count]) => count >= least).sort((a, b) => b[1] - a[1])
\* .slice(0, n)
TopEntries(keys, least, n) ==
  LET AtLeast(entry) == entry.count >= least
  IN CHOOSE top \in
       {Slice(SortedDescBy(kept, [i \in 1..Len(kept) |-> kept[i].count]), n) :
          kept \in {SelectSeq(CountEntries(keys), AtLeast)}} : TRUE

\* analyzeTopics(posts)
AnalyzeTopics(posts) ==
  [topWords |-> TopEntries(Flatten(posts, "words"), 3, 10),
   topBigrams |-> TopEntries(Bigrams(posts), 2, 5)]

\* analyzeEmojis(posts)
AnalyzeEmojis(posts) ==
  [topEmojis |-> TopEntries(Flatten(posts, "emojis"), 1, 10),
   totalEmojis |-> Len(Flatten(posts, "emojis"))]

\* analyzeLinks(posts): the type by totalLinks / posts.length
AnalyzeLinks(posts) ==
  LET totalLinks == Len(Flatten(posts, "domains"))
      topDomains == TopEntries(Flatten(posts, "domains"), 1, 10)
  IN IF totalLinks = 0 \/ Len(topDomains) = 0
       THEN [topDomains |-> <<>>, totalLinks |-> 0, type |-> "Text-only"]
     ELSE [topDomains |-> topDomains,
           totalLinks |-> totalLinks,
           type |-> IF totalLinks * 10 > 3 * Len(posts) THEN "Link Curator"
                    ELSE IF totalLinks * 100 > 15 * Len(posts) THEN "Selective Sharer"
                    ELSE IF totalLinks * 100 > 5 * Len(posts) THEN "Occasional Linker"
                    ELSE "Link Sharer"]

\* the posts whose embed is of the type `type`
EmbedPosts(posts, type) == Cardinality({k \in 1..Len(posts) : posts[k].embed = type})

\* analyzeMedia(posts, totalPosts); mediaRatio as numerator and denominator
AnalyzeMedia(posts, totalPosts) ==
  LET imagePosts == EmbedPosts(posts, "app.bsky.embed.images")
      videoPosts == EmbedPosts(posts, "app.bsky.embed.video")
      mediaPosts == imagePosts + videoPosts
  IN [mediaPosts |-> mediaPosts,
      mediaRatio |-> IF totalPosts > 0 THEN <<mediaPosts, totalPosts>> ELSE <<0, 1>>,
      type |-> IF totalPosts > 0 /\ mediaPosts * 10 > 5 * totalPosts
                 THEN IF imagePosts > videoPosts * 2 THEN "Visual Storyteller"
                      ELSE IF videoPosts > imagePosts THEN "Video Creator"
                      ELSE "Multimedia Master"
               ELSE IF totalPosts > 0 /\ mediaPosts * 10 > 2 * totalPosts THEN "Balanced"
               ELSE "Text-only"]

\* { text, replies, likes, reposts, uri } of a thread starter
Starter(post) ==
  [replies |-> Count(post, "replyCount"),
   likes |-> Count(post, "likeCount"),
   reposts |-> Count(post, "repostCount"),
   uri |-> post.uri]

\* analyzeThreads(posts)
AnalyzeThreads(posts) ==
  LET StartsThread(post) == ~post.reply /\ Count(post, "replyCount") > 0
      threadStarters == SelectSeq(posts, StartsThread)
      totalThreadsStarted == Len(threadStarters)
      replies == [k \in 1..Len(threadStarters) |-> Count(threadStarters[k], "replyCount")]
      totalReplies == SumOver(replies, 1..Len(threadStarters))
      avgRepliesPerThread ==
        IF totalThreadsStarted > 0 THEN MathRound(totalReplies, totalThreadsStarted) ELSE 0
      longest == MaxScan(replies, 1, 0, 0)
  IN IF totalThreadsStarted = 0
       THEN [longestThread |-> Null, conversationStarters |-> <<>>,
             totalThreadsStarted |-> 0, avgRepliesPerThread |-> 0, type |-> "Quiet Observer"]
     ELSE [longestThread |-> IF longest = 0 THEN Null ELSE Starter(threadStarters[longest]),
           conversationStarters |->
             Slice(SortedDescBy([k \in 1..Len(threadStarters) |-> Starter(threadStarters[k])],
                                replies), 5),
           totalThreadsStarted |-> totalThreadsStarted,
           avgRepliesPerThread |-> avgRepliesPerThread,
           type |->
             IF totalThreadsStarted * 10 > 4 * Len(posts) /\ avgRepliesPerThread > 10
               THEN "Conversation Master"
             ELSE IF totalThreadsStarted * 10 > 3 * Len(posts) /\ avgRepliesPerThread > 5
               THEN "Thread Starter"
             ELSE IF totalThreadsStarted * 10 > 2 * Len(posts)
               THEN "Occasional Conversationalist"
             ELSE IF avgRepliesPerThread > 15 THEN "Selective Starter"
             ELSE "Quiet Starter"]

\* the vintage score of analyzePostingAge from the sums over the posts
\* with text and the number of replies
VintageScore(totalLength, hashtagCount, emojiCount, postsWithText, replyPosts, totalPosts) ==
  (IF postsWithText = 0 THEN 0
   ELSE IF totalLength > 200 * postsWithText THEN 40
   ELSE IF totalLength > 150 * postsWithText THEN 30
   ELSE IF totalLength > 100 * postsWithText THEN 20
   ELSE IF totalLength > 50 * postsWithText THEN 10
   ELSE 0)
  + (IF postsWithText = 0 THEN 0
     ELSE IF hashtagCount > 3 * postsWithText THEN 30
     ELSE IF hashtagCount > 2 * postsWithText THEN 20
     ELSE IF hashtagCount > postsWithText THEN 10
     ELSE IF 2 * hashtagCount > postsWithText THEN 5
     ELSE 0)
  + (IF postsWithText = 0 \/ 10 * emojiCount < postsWithText THEN 20
     ELSE IF 2 * emojiCount < postsWithText THEN 15
     ELSE IF emojiCount < postsWithText THEN 10
     ELSE IF emojiCount < 2 * postsWithText THEN 5
     ELSE 0)
  + (IF 10 * replyPosts < totalPosts THEN 10
     ELSE IF 10 * replyPosts < 2 * totalPosts THEN 7
     ELSE IF 10 * replyPosts < 3 * totalPosts THEN 4
     ELSE 0)

\* analyzePostingAge(posts, totalPosts, totalReplies)
AnalyzePostingAge(posts, totalPosts) ==
  IF totalPosts = 0 THEN [era |-> "2024s Bluesky", year |-> "2024"]
  ELSE
    LET withText == {k \in 1..Len(posts) : posts[k].textLength > 0}
        score ==
          VintageScore(SumOver([k \in 1..Len(posts) |-> posts[k].textLength], withText),
                       SumOver([k \in 1..Len(posts) |-> posts[k].hashtags], withText),
                       SumOver([k \in 1..Len(posts) |-> posts[k].emojiPoints], withText),
                       Cardinality(withText),
                       Cardinality({k \in 1..Len(posts) : posts[k].reply}),
                       totalPosts)
    IN IF score >= 70 THEN [era |-> "2010s Twitter", year |-> "2010"]
       ELSE IF score >= 50 THEN [era |-> "2015s Twitter", year |-> "2015"]
       ELSE IF score >= 30 THEN [era |-> "2020s Twitter", year |-> "2020"]
       ELSE [era |-> "2024s Bluesky", year |-> "2024"]

\* day.substring(0, 3) of the day names
DayAbbreviations == <<"Sun", "Mon", "Tue", "Wed", "Thu", "Fri", "Sat">>

\* analyzeVisualizations(posts, targetYear, timezoneOffsetMinutes)
AnalyzeVisualizations(posts, timezoneOffsetMinutes) ==
  CHOOSE out \in
    {LET monthlyPosts == [m \in 1..12 |-> NameCount([k \in 1..Len(keys) |-> keys[k].month],
                                                     MonthNames[m])]
         monthlyEngagement ==
           [m \in 1..12 |->
              SumOver([k \in 1..Len(keys) |-> keys[k].engagement],
                      {k \in 1..Len(keys) : keys[k].month = MonthNames[m]})]
         HasPosts(m) == monthlyPosts[m] > 0
         HasEngagement(m) == monthlyEngagement[m] > 0
         withPosts == SelectSeq([m \in 1..12 |-> m], HasPosts)
         withEngagement == SelectSeq([m \in 1..12 |-> m], HasEngagement)
     IN [monthlyPosts |->
           [i \in 1..Len(withPosts) |->
              [month |-> MonthNames[withPosts[i]], count |-> monthlyPosts[withPosts[i]]]],
         monthlyEngagement |->
           [i \in 1..Len(withEngagement) |->
              [month |-> MonthNames[withEngagement[i]],
               engagement |-> monthlyEngagement[withEngagement[i]]]],
         dailyActivity |->
           [d \in 1..7 |->
              [day |-> DayAbbreviations[d],
               count |-> NameCount([k \in 1..Len(keys) |-> keys[k].day], DayNames[d])]]] :
       keys \in {TimelineKeys(posts, timezoneOffsetMinutes)}} : TRUE

(***************************************************************************)
(* analyzeRecap on the posts fetched, with the upstream of the fan sampler *)
(* given by the answers it has for each post                               *)
(***************************************************************************)
\* getPostLikes or getPostReposts from its first request to its return,
\* against the answers `script`
RECURSIVE WalkEdges(_, _)
WalkEdges(walk, script) ==
  IF ~walk.waiting THEN walk
  ELSE WalkEdges(AfterResponse(walk, ResponseAt(script, walk.i)), script)

\* for (const item of sortedPosts) { ... } from the idx-th post on
RECURSIVE SampleFrom(_, _, _, _, _)
SampleFrom(fanCounts, sortedPosts, idx, likeShift, repostShift) ==
  IF idx > Len(sortedPosts) THEN fanCounts
  ELSE CHOOSE out \in
         {SampleFrom(TallyEdges(likesTallied, reposts.all, 1, "reposts"),
                     sortedPosts, idx + 1, likeShift, repostShift) :
            likesTallied \in
              {TallyEdges(fanCounts, likes.all, 1, "likes") :
                 likes \in {WalkEdges(BeginWalk, ScriptOf(likeShift, sortedPosts[idx].uri))}},
            reposts \in {WalkEdges(BeginWalk, ScriptOf(repostShift, sortedPosts[idx].uri))}} :
         TRUE

\* getTopFans(session, posts, profileDid) from its call to its return
GetTopFans(posts, likeShift, repostShift) ==
  TopFans(SampleFrom(<<>>,
                     Slice(SortedDescBy(posts,
                                        [k \in 1..Len(posts) |-> EdgeEngagement(posts[k])]),
                           SampleSize),
                     1, likeShift, repostShift))

\* ownPosts.reduce((earliest, post) => postDate < earliestDate ? post :
\* earliest): the place of the earliest post from the k-th post on
RECURSIVE EarliestFrom(_, _, _)
EarliestFrom(ownPosts, k, earliest) ==
  IF k > Len(ownPosts) THEN earliest
  ELSE IF ownPosts[k].createdAt < ownPosts[earliest].createdAt
    THEN EarliestFrom(ownPosts, k + 1, k)
    ELSE EarliestFrom(ownPosts, k + 1, earliest)

\* firstPost ? { likes, reposts, replies, uri, createdAt } : null
FirstPost(ownPosts) ==
  IF Len(ownPosts) > 0
    THEN Summary(ownPosts, EarliestFrom(ownPosts, 2, 1))
           @@ [createdAt |-> ownPosts[EarliestFrom(ownPosts, 2, 1)].createdAt]
    ELSE Null

\* posts as analyzePosterType looks at them: how many there are of each
\* shape of reply and embed
ShapeBag(ownPosts) ==
  [shape \in {[reply |-> ownPosts[k].reply, embed |-> ownPosts[k].embed] :
                k \in 1..Len(ownPosts)} |->
     Cardinality({k \in 1..Len(ownPosts) :
                    ownPosts[k].reply = shape.reply /\ ownPosts[k].embed = shape.embed})]

\* hourCounts of analyzeRecap
HourCounts(ownPosts, timezoneOffsetMinutes) ==
  CHOOSE hourCounts \in
    {[hour \in {hours[k] : k \in 1..Len(hours)} |-> HourCount(hours, hour)] :
       hours \in {LocalHours(ownPosts, timezoneOffsetMinutes)}} : TRUE

\* const ownPosts = posts.filter((item) => item.post.author.did === profile.did)
OwnPosts(posts, did) ==
  LET IsOwn(post) == post.author = did
  IN SelectSeq(posts, IsOwn)

\* the facets of the recap for the own posts: those of AnalyzePosts and
\* the others in the order analyzeRecap computes them; the timeline is
\* asked for without the offset
FacetsOf(ownPosts, timezoneOffsetMinutes, likeShift, repostShift) ==
  CHOOSE recap \in
    {base @@
       [topFans |-> GetTopFans(ownPosts, likeShift, repostShift),
        topics |-> AnalyzeTopics(ownPosts),
        posterType |->
          AnalyzePosterType(ShapeBag(ownPosts), base.stats.totalPosts,
                            base.stats.avgEngagement, base.patterns.longestStreak,
                            HourCounts(ownPosts, timezoneOffsetMinutes)),
        postingAge |-> AnalyzePostingAge(ownPosts, base.stats.totalPosts),
        firstPost |-> FirstPost(ownPosts),
        emojis |-> AnalyzeEmojis(ownPosts),
        media |-> AnalyzeMedia(ownPosts, base.stats.totalPosts),
        engagementTimeline |->
          AnalyzeEngagementTimeline(ownPosts, DefaultTimezoneOffsetMinutes),
        milestones |-> FindMilestones(ownPosts, base.stats.totalPosts),
        links |-> AnalyzeLinks(ownPosts),
        visualizations |-> AnalyzeVisualizations(ownPosts, timezoneOffsetMinutes),
        threads |-> AnalyzeThreads(ownPosts)] :
       base \in {AnalyzePosts(ownPosts, timezoneOffsetMinutes)}} : TRUE

\* analyzeRecap(session, posts, profile, ...) as far as it derives from
\* the posts
AnalyzeRecapOf(posts, did, timezoneOffsetMinutes, likeShift, repostShift) ==
  CHOOSE recap \in
    {FacetsOf(ownPosts, timezoneOffsetMinutes, likeShift, repostShift) :
       ownPosts \in {OwnPosts(posts, did)}} : TRUE

\* most posts fetched for a call of analyzeRecap
MaxRecapPosts == 2

\* the posts of a feed: a post with text, a link, an emoji and replies to
\* it, a reply with images, a quote, and a video
FeedPostShapes ==
  {[createdAt |-> DateUTC(2024, 1, 29, 0, 30), likeCount |-> 3, repostCount |-> 1,
    replyCount |-> 2, reply |-> FALSE, embed |-> "none",
    words |-> <<"bluesky", "recap", "bluesky", "recap", "bluesky">>,
    emojis |-> <<"tada">>, domains |-> <<"example.org">>,
    textLength |-> 120, hashtags |-> 2, emojiPoints |-> 1],
   [createdAt |-> DateUTC(2024, 2, 2, 12, 0),
    reply |-> TRUE, embed |-> "app.bsky.embed.images",
    words |-> <<>>, emojis |-> <<>>, domains |-> <<>>,
    textLength |-> 0, hashtags |-> 0, emojiPoints |-> 0],
   [createdAt |-> DateUTC(2024, 11, 31, 23, 30), likeCount |-> 1, repostCount |-> 2,
    replyCount |-> 0, reply |-> FALSE, embed |-> "app.bsky.embed.record",
    words |-> <<"bluesky", "recap">>, emojis |-> <<"tada", "wave">>, domains |-> <<>>,
    textLength |-> 30, hashtags |-> 0, emojiPoints |-> 2],
   [createdAt |-> DateUTC(2024, 11, 30, 23, 30), likeCount |-> 0, replyCount |-> 1,
    reply |-> FALSE, embed |-> "app.bsky.embed.video",
    words |-> <<"video">>, emojis |-> <<>>, domains |-> <<"example.org", "example.net">>,
    textLength |-> 210, hashtags |-> 4, emojiPoints |-> 0]}

\* the authors of the posts of a feed: the profile and a reposted other
FeedAuthors == {profileDid, "other"}

\* the feeds: each post with its place in the feed as uri
RECURSIVE Feeds(_)
Feeds(n) ==
  IF n = 0 THEN {<<>>}
  ELSE Feeds(n - 1) \cup
       {Append(posts, [uri |-> Len(posts) + 1, author |-> author] @@ shape) :
          posts \in {p \in Feeds(n - 1) : Len(p) = n - 1},
          shape \in FeedPostShapes, author \in FeedAuthors}

RecapCalls ==
  [fn : {"analyzeRecap"},
   posts : Feeds(MaxRecapPosts),
   timezoneOffsetMinutes : {0, 60},
   likeShift : {0, 3},
   repostShift : {6},
   done : {FALSE}, out : {NoResult}]

\* analyzeRecap runs
AnalyzeFetched ==
  /\ call.fn = "analyzeRecap"
  /\ ~call.done
  /\ call' = [call EXCEPT !.done = TRUE,
                !.out = AnalyzeRecapOf(call.posts, profileDid, call.timezoneOffsetMinutes,
                                       call.likeShift, call.repostShift)]
  /\ UNCHANGED <<fetchVars, routeVars, fan, an, lt>>

RecapAnalyzed == call.fn = "analyzeRecap" /\ call.done

\* no fetched post is by the profile
NoOwnPost == \A k \in 1..Len(call.posts) : call.posts[k].author # profileDid

\* the facets of the empty post set but for the longest streak: the counts
\* and totals are zero, the top posts null, the lists empty and the
\* classifiers at their fallback labels
EmptyDefaults ==
  /\ call.out.stats =
       [totalPosts |-> 0, totalLikes |-> 0, totalReposts |-> 0, totalReplies |-> 0,
        totalEngagement |-> 0, avgEngagement |-> 0, daysActive |-> 0]
  /\ call.out.topPost = Null
  /\ call.out.firstPost = Null
  /\ call.out.mostLikedPost = Null
  /\ call.out.mostRepostedPost = Null
  /\ call.out.mostRepliedPost = Null
  /\ call.out.topFans = <<>>
  /\ call.out.topics = [topWords |-> <<>>, topBigrams |-> <<>>]
  /\ call.out.emojis = [topEmojis |-> <<>>, totalEmojis |-> 0]
  /\ call.out.milestones = [milestones |-> <<>>]
  /\ call.out.links = [topDomains |-> <<>>, totalLinks |-> 0, type |-> "Text-only"]
  /\ call.out.posterType.type = "Balanced"
  /\ call.out.media.type = "Text-only"
  /\ call.out.media.mediaPosts = 0
  /\ call.out.media.mediaRatio[1] = 0
  /\ call.out.threads =
       [longestThread |-> Null, conversationStarters |-> <<>>, totalThreadsStarted |-> 0,
        avgRepliesPerThread |-> 0, type |-> "Quiet Observer"]
  /\ call.out.visualizations.monthlyPosts = <<>>
  /\ call.out.visualizations.monthlyEngagement = <<>>
  /\ \A d \in 1..7 : call.out.visualizations.dailyActivity[d].count = 0
  /\ call.out.engagementTimeline.bestMonthAvg = 0
  /\ call.out.engagementTimeline.bestDayAvg = 0
  /\ call.out.engagementTimeline.bestHourAvg = 0

\* C21: with no fetched post by the profile analyzeRecap returns, and every
\* facet has its empty default: all counts and totals are zero, the longest
\* streak among them, the top posts and the first post are null, topFans,
\* topics, emojis, milestones and top domains are empty, and the
\* classifiers return Balanced, Text-only (media), Text-only (links) and
\* Quiet Observer
C21_EmptyDefaults ==
  RecapAnalyzed /\ NoOwnPost =>
    /\ EmptyDefaults
    /\ call.out.patterns.longestStreak = 0

\* the same without the longest streak
EmptyDefaultsButStreak ==
  RecapAnalyzed /\ NoOwnPost => EmptyDefaults

\* posts were fetched and none is the profile's
EmptyDefaultsReached ==
  RecapAnalyzed /\ NoOwnPost /\ Len(call.posts) = MaxRecapPosts /\ EmptyDefaults

(***************************************************************************)
(* The calls, one function at a time                                       *)
(***************************************************************************)
FacetCalls == NormalizeCalls \cup PosterCalls \cup MilestoneCalls \cup TimelineCalls
    \cup RecapCalls

InitFacets ==
  /\ cache = {}
  /\ now = 0
  /\ req = [r \in Reqs |-> IdleReq]
  /\ mode = "rich"
  /\ served = <<>>
  /\ requestLog = <<>>
  /\ pc = "off"
  /\ fs = FetchStart
  /\ postsResult = NoResult
  /\ result = NoRecap
  /\ error = ""
  /\ fan = NoResult
  /\ an = NoResult
  /\ lt = NoResult
  /\ call \in FacetCalls

NextFacets ==
  \/ NormalizeHandle
  \/ ClassifyPoster
  \/ FindMilestonesOfPosts
  \/ EngagementTimeline
  \/ AnalyzeFetched

SpecFacets == InitFacets /\ [][NextFacets]_vars

====
